---------------------------- MODULE Spec2Model ----------------------------
(***************************************************************************)
(* Dashboard-Automation: the Kimai payroll extractor                       *)
(* (src/kimai_payroll_engineering.py) and the Service Fusion dashboard     *)
(* extractor (src/project-dashboard-ytd.py) as state machines.             *)
(*                                                                         *)
(* The module holds several specifications over one set of variables:      *)
(*   SpecBreaks   KimaiExtractor.calculate_breaks_from_raw_data            *)
(*   SpecMatch    ServiceFusionExtractor.create_powerbi_summary            *)
(*   SpecReports  KimaiExtractor.create_customer_reports                   *)
(*   SpecRerun    create_customer_reports twice on the same frames         *)
(*   SpecExtract  ServiceFusionExtractor.extract_with_forced_sort, one call *)
(*   SpecRun      one run of either script, from main() to the exit status  *)
(* Each specification's Init draws the inputs of the code it runs from     *)
(* bounded sets; the variables of the other parts stay at their idle value.*)
(***************************************************************************)
EXTENDS Integers, Sequences, FiniteSets, TLC

VARIABLES
    \* ---- break detector (calculate_breaks_from_raw_data) ----
    raw_timesheets,   \* rows of raw_timesheets_df: [user, begin, end], times in UTC seconds
    bpc,              \* position in calculate_breaks_from_raw_data
    pending,          \* (user, date_only) group keys the for loop has not visited yet
    scanned,          \* the groups visited so far, each as the code sorted it
    break_records,    \* the list break_records
    \* ---- invoice matcher (create_powerbi_summary) ----
    all_data,         \* the argument all_data: [jobs, invoices, estimates], lists of records
    mpc,              \* position in create_powerbi_summary
    powerbi_df,       \* the returned frame, one record per row
    \* ---- report builder (create_customer_reports, create_summary_file) ----
    timesheets_df,    \* the mapped timesheet rows: [customer, user, project, activity, duration]
    breaks_df,        \* the break records handed to the report builder
    rpc,              \* position in create_customer_reports
    wb,               \* the workbook being built: a list of sheets [title, header, rows]
    files,            \* the workbooks written to disk so far, in write order: [name, sheets]
    main_file,        \* what create_customer_reports returned (a file name or "None")
    wb_rerun,         \* the workbook a second run builds from the same frames
    \* ---- Service Fusion extractor (authenticate, extract_with_forced_sort) ----
    server,           \* the remote side for the endpoint being extracted: [auth, script, tail]
    date_range,       \* the DATE_RANGE selector
    access_token,     \* self.access_token ("None" or a token)
    token_fresh,      \* datetime.now() < self.token_expires_at
    xpc,              \* position in extract_with_forced_sort
    page,             \* the local page
    all_records,      \* the list all_records, as one chunk per page that added records
    http_log,         \* every request sent for this endpoint, in order
    stale_get,        \* a GET was sent while the cached token had expired
    extracted,        \* what extract_with_forced_sort returned ("pending" before)
    twin,             \* the same call once more, under another selector, on a fresh
                      \* extractor facing the same remote side: its selector and locals
    \* ---- one run of a script, from main() to the process exit ----
    program,          \* which script runs: "kimai" or "service_fusion"
    environ,          \* the credential variables that are set and not empty
    kimai_remote,     \* how the Kimai server answers the pages of Timesheets
    mainpc,           \* position in main()
    endpoint_i,       \* index of the endpoint the fetch / extract loop is at
    kimai_page,       \* fetch_api_data: the local page
    df_list,          \* fetch_api_data: the local df_list, as the pages of its frames
    dataframes,       \* fetch_api_data: the dict dataframes, name -> records and their pages
    run_all_data,     \* extract_all_data: the dict all_data, endpoint -> number of records
    net_log,          \* what the run asked of the network, with the answers
    exit_code         \* the process exit status ("running" until the process exits)

breakVars == <<raw_timesheets, bpc, pending, scanned, break_records>>
matchVars == <<all_data, mpc, powerbi_df>>
reportVars == <<timesheets_df, breaks_df, rpc, wb, files, main_file, wb_rerun>>
extractVars == <<server, date_range, access_token, token_fresh, xpc, page, all_records,
                 http_log, stale_get, extracted, twin>>
runVars == <<program, environ, kimai_remote, mainpc, endpoint_i, kimai_page, df_list, dataframes,
             run_all_data, net_log, exit_code>>
notBreakVars == <<matchVars, reportVars, extractVars, runVars>>
notMatchVars == <<breakVars, reportVars, extractVars, runVars>>
notReportVars == <<breakVars, matchVars, extractVars, runVars>>
notExtractVars == <<breakVars, matchVars, reportVars, runVars>>
vars == <<raw_timesheets, bpc, pending, scanned, break_records,
          all_data, mpc, powerbi_df,
          timesheets_df, breaks_df, rpc, wb, files, main_file, wb_rerun,
          server, date_range, access_token, token_fresh, xpc, page, all_records,
          http_log, stale_get, extracted, twin,
          program, environ, kimai_remote, mainpc, endpoint_i, kimai_page, df_list,
          dataframes, run_all_data, net_log, exit_code>>

(***************************************************************************)
(* Time.  Timestamps are whole seconds; NaT is pandas' missing timestamp   *)
(* (errors='coerce').  A local timestamp is the UTC one shifted by the     *)
(* US/Eastern offset (standard time).                                      *)
(***************************************************************************)
NaT == -1
EasternOffset == 18000
SecondsPerDay == 86400
SecondsPerHour == 3600

tz_convert(t) == IF t = NaT THEN NaT ELSE t - EasternOffset
date_of(t) == t \div SecondsPerDay
hour_of(t) == (t % SecondsPerDay) \div SecondsPerHour
\* strftime('%H:%M:%S'): the clock time of day, the date dropped
strftime_HMS(t) == t % SecondsPerDay

\* Valid breaks: 5 minutes to 1 hour, between 10 AM and 4 PM
MinBreakSeconds == 300
MaxBreakSeconds == 3600
FirstBreakHour == 10
LastBreakHour == 16

(***************************************************************************)
(* Inputs of the break detector.                                           *)
(***************************************************************************)
MaxEntries == 3
UserIds == {1, 2}

\* Local wall-clock instants (seconds since local midnight of day 0).
LocalInstants ==
    { 35999,                   \* day 0 09:59:59
      57599,                   \* day 0 15:59:59
      57898,                   \* day 0 16:04:58  (299 s after 15:59:59)
      57899,                   \* day 0 16:04:59  (300 s)
      61199,                   \* day 0 16:59:59  (3600 s)
      61200,                   \* day 0 17:00:00  (3601 s)
      63000,                   \* day 0 17:30:00
      SecondsPerDay + 32400,   \* day 1 09:00:00
      SecondsPerDay + 35999,   \* day 1 09:59:59
      SecondsPerDay + 36299,   \* day 1 10:04:59  (300 s after 09:59:59)
      SecondsPerDay + 39600 }  \* day 1 11:00:00
UtcInstants == { t + EasternOffset : t \in LocalInstants }

\* A timesheet row: a finished entry within one local day, or a running /
\* unparseable one (end missing).
EntryPool ==
    { [user |-> u, begin |-> b, end |-> e] :
        u \in UserIds, b \in UtcInstants, e \in UtcInstants \cup {NaT} }
FinishedSameDay(r) ==
    /\ r.end # NaT
    /\ r.begin < r.end
    /\ date_of(tz_convert(r.begin)) = date_of(tz_convert(r.end))
RunningEntry(r) == r.end = NaT /\ tz_convert(r.begin) \in {35999, SecondsPerDay + 32400}
Entries == { r \in EntryPool : FinishedSameDay(r) \/ RunningEntry(r) }

RECURSIVE SubsetsUpTo(_, _)
SubsetsUpTo(S, n) ==
    IF n = 0 THEN {{}}
    ELSE LET smaller == SubsetsUpTo(S, n - 1)
         IN  smaller \cup { T \cup {x} : T \in smaller, x \in S }

(***************************************************************************)
(* calculate_breaks_from_raw_data                                          *)
(***************************************************************************)
\* lines 169-173: the derived columns of one row
WithLocal(r) ==
    [user |-> r.user,
     begin_local |-> tz_convert(r.begin),
     end_local |-> tz_convert(r.end),
     date_only |-> IF r.begin = NaT THEN NaT ELSE date_of(tz_convert(r.begin))]

\* line 175: dropna(subset=['begin_local', 'end_local'])
dropna(rows) == { r \in rows : r.begin_local # NaT /\ r.end_local # NaT }

LocalRows(raw) == dropna({ WithLocal(r) : r \in raw })

\* line 180: groupby(['user', 'date_only'])
GroupKeys(rows) == { <<r.user, r.date_only>> : r \in rows }
GroupOf(rows, k) == { r \in rows : r.user = k[1] /\ r.date_only = k[2] }
KeyLess(k1, k2) == k1[1] < k2[1] \/ (k1[1] = k2[1] /\ k1[2] < k2[2])
FirstKey(keys) == CHOOSE k \in keys : \A o \in keys : o = k \/ KeyLess(k, o)

\* line 182: sort_values('begin_local').  The default sort is not stable: rows
\* with equal begin_local come out in an order that depends on the algorithm
\* and on the row order of the input, so every begin-sorted order is possible.
sort_values(group) ==
    LET n == Cardinality(group)
    IN  { s \in [1..n -> group] :
            /\ \A i, j \in 1..n : i # j => s[i] # s[j]
            /\ \A i \in 1..(n - 1) : s[i].begin_local <= s[i + 1].begin_local }

\* IsValidBreak with the lower bound made strict (300 < gap)
IsValidBreak_StrictMin(current_end, next_begin) ==
    LET gap == next_begin - current_end
    IN  /\ MinBreakSeconds < gap /\ gap <= MaxBreakSeconds
        /\ FirstBreakHour <= hour_of(current_end) /\ hour_of(current_end) <= LastBreakHour
        /\ FirstBreakHour <= hour_of(next_begin) /\ hour_of(next_begin) <= LastBreakHour

\* IsValidBreak with the hour test of next_begin forgotten
IsValidBreak_NoEndHour(current_end, next_begin) ==
    LET gap == next_begin - current_end
    IN  /\ MinBreakSeconds <= gap /\ gap <= MaxBreakSeconds
        /\ FirstBreakHour <= hour_of(current_end) /\ hour_of(current_end) <= LastBreakHour

\* lines 197-198: the acceptance test of one gap
IsValidBreak(current_end, next_begin) ==
    LET gap == next_begin - current_end
    IN  /\ MinBreakSeconds <= gap /\ gap <= MaxBreakSeconds
        /\ FirstBreakHour <= hour_of(current_end) /\ hour_of(current_end) <= LastBreakHour
        /\ FirstBreakHour <= hour_of(next_begin) /\ hour_of(next_begin) <= LastBreakHour

\* lines 191-206: the scan of consecutive rows of one sorted group
RECURSIVE DailyBreaksFrom(_, _)
DailyBreaksFrom(group, i) ==
    IF i >= Len(group) THEN << >>
    ELSE LET current_end == group[i].end_local
             next_begin == group[i + 1].begin_local
             rest == DailyBreaksFrom(group, i + 1)
         IN  IF IsValidBreak(current_end, next_begin)
             THEN << [break_start |-> strftime_HMS(current_end),
                      break_end |-> strftime_HMS(next_begin),
                      gap_seconds |-> next_begin - current_end] >> \o rest
             ELSE rest
DailyBreaks(group) == DailyBreaksFrom(group, 1)

RECURSIVE TotalGap(_)
TotalGap(breaks) ==
    IF breaks = << >> THEN 0 ELSE Head(breaks).gap_seconds + TotalGap(Tail(breaks))

\* BreakRecord with last_work_end taken from the row that ends last
BreakRecord_LatestEnd(k, group, daily_breaks) ==
    [user_id |-> k[1],
     date |-> k[2],
     total_breaks |-> Len(daily_breaks),
     total_break_seconds |-> TotalGap(daily_breaks),
     break_details |-> daily_breaks,
     first_work_start |-> strftime_HMS(group[1].begin_local),
     last_work_end |->
        strftime_HMS(CHOOSE e \in { group[i].end_local : i \in DOMAIN group } :
                        \A i \in DOMAIN group : group[i].end_local <= e),
     total_work_entries |-> Len(group)]

\* lines 209-221: the record of one group
BreakRecord(k, group, daily_breaks) ==
    [user_id |-> k[1],
     date |-> k[2],
     total_breaks |-> Len(daily_breaks),
     total_break_seconds |-> TotalGap(daily_breaks),
     break_details |-> daily_breaks,
     first_work_start |-> strftime_HMS(group[1].begin_local),
     last_work_end |-> strftime_HMS(group[Len(group)].end_local),
     total_work_entries |-> Len(group)]

\* lines 159-178: the guard, the conversions, the grouping
CalcBreaksBegin ==
    /\ bpc = "ready"
    /\ IF raw_timesheets = {}
       THEN /\ bpc' = "done"
            /\ pending' = {}
       ELSE /\ bpc' = "scan"
            /\ pending' = GroupKeys(LocalRows(raw_timesheets))
    /\ UNCHANGED <<raw_timesheets, scanned, break_records>>
    /\ UNCHANGED notBreakVars

\* lines 180-221: one iteration of the for loop over the groups
CalcBreaksGroup ==
    /\ bpc = "scan"
    /\ pending # {}
    /\ LET k == FirstKey(pending)
       IN  \E group \in sort_values(GroupOf(LocalRows(raw_timesheets), k)) :
             /\ pending' = pending \ {k}
             /\ scanned' = Append(scanned, [key |-> k, group |-> group])
             /\ break_records' =
                  IF Len(group) < 2 \/ DailyBreaks(group) = << >>
                  THEN break_records
                  ELSE Append(break_records, BreakRecord(k, group, DailyBreaks(group)))
    /\ UNCHANGED <<raw_timesheets, bpc>>
    /\ UNCHANGED notBreakVars

\* lines 223-224
CalcBreaksReturn ==
    /\ bpc = "scan"
    /\ pending = {}
    /\ bpc' = "done"
    /\ UNCHANGED <<raw_timesheets, pending, scanned, break_records>>
    /\ UNCHANGED notBreakVars

(***************************************************************************)
(* create_powerbi_summary: the job-to-invoice matcher.                     *)
(*                                                                         *)
(* A job is [id, customer_name, total]; id 0 stands for a missing (None)   *)
(* id.  An invoice is [customer, total, date]; customer "" stands for a    *)
(* missing customer.  Dates are strings in the code ('2024-03-01'),        *)
(* compared as strings; here they are numbers with the same order.         *)
(* None is Python's None in a record field.                                *)
(***************************************************************************)
None == -1

MaxJobs == 2
MaxInvoices == 3

\* Customer "A" carries the variety of totals and dates; customer "B" is the
\* other customer, with one invoice and one job shape of its own.  Against a
\* job total of 100: 85 and 130 fail the 10% test, 109 and 100 pass it.
Jobs ==
    [id : {0, 1}, customer_name : {"A"}, total : {0, 100}]
    \cup [id : {0, 1}, customer_name : {"B"}, total : {100}]
Invoices ==
    {[customer |-> "A", total |-> 85, date |-> 1],
     [customer |-> "A", total |-> 130, date |-> 2],
     [customer |-> "A", total |-> 109, date |-> 1],
     [customer |-> "A", total |-> 109, date |-> 2],
     [customer |-> "A", total |-> 100, date |-> 1],
     [customer |-> "B", total |-> 109, date |-> 2],
     [customer |-> "", total |-> 109, date |-> 2]}
EstimateLists == { << >>, <<[id |-> 1, customer_name |-> "A", total |-> 100]>> }

RECURSIVE SeqsUpTo(_, _)
SeqsUpTo(S, n) ==
    IF n = 0 THEN {<< >>}
    ELSE LET shorter == SeqsUpTo(S, n - 1)
         IN  shorter \cup { Append(q, x) : q \in shorter, x \in S }

\* lines 238-244: estimates stand in for jobs when there is no job
JobsData(data) ==
    IF data.jobs = << >> /\ data.estimates # << >> THEN data.estimates ELSE data.jobs

\* lines 250-257: invoices_by_customer[customer], as the positions in
\* invoices_data of that customer's invoices, in insertion order
RECURSIVE InvoicesOfFrom(_, _, _)
InvoicesOfFrom(invoices_data, customer, i) ==
    IF i > Len(invoices_data) THEN << >>
    ELSE IF invoices_data[i].customer # "" /\ invoices_data[i].customer = customer
         THEN <<i>> \o InvoicesOfFrom(invoices_data, customer, i + 1)
         ELSE InvoicesOfFrom(invoices_data, customer, i + 1)
invoices_by_customer(invoices_data, customer) == InvoicesOfFrom(invoices_data, customer, 1)

Abs(x) == IF x < 0 THEN 0 - x ELSE x

\* lines 289-292: invoice_total > 0 and abs(invoice_total - job_total) / job_total <= 0.1
WithinTolerance(invoice_total, job_total) ==
    /\ invoice_total > 0
    /\ 10 * Abs(invoice_total - job_total) <= job_total

\* AmountMatch choosing the closest passing candidate instead of the first
AmountMatch_Closest(invoices_data, customer_invoices, job_total) ==
    LET passing == { n \in 1..Len(customer_invoices) :
                       WithinTolerance(invoices_data[customer_invoices[n]].total, job_total) }
        dist(n) == Abs(invoices_data[customer_invoices[n]].total - job_total)
    IN  IF job_total > 0 /\ passing # {}
        THEN customer_invoices[CHOOSE n \in passing :
                 \A m \in passing : dist(n) < dist(m) \/ (dist(n) = dist(m) /\ n <= m)]
        ELSE 0

\* lines 287-295: the first candidate passing the amount test (0: none)
RECURSIVE AmountMatchFrom(_, _, _, _)
AmountMatchFrom(invoices_data, customer_invoices, job_total, n) ==
    IF n > Len(customer_invoices) THEN 0
    ELSE IF WithinTolerance(invoices_data[customer_invoices[n]].total, job_total)
         THEN customer_invoices[n]
         ELSE AmountMatchFrom(invoices_data, customer_invoices, job_total, n + 1)
AmountMatch(invoices_data, customer_invoices, job_total) ==
    IF job_total > 0
    THEN AmountMatchFrom(invoices_data, customer_invoices, job_total, 1)
    ELSE 0

\* MostRecent with reverse=True forgotten: the smallest date comes first
MostRecent_Ascending(invoices_data, customer_invoices) ==
    LET n == Len(customer_invoices)
        first == CHOOSE i \in 1..n :
            /\ \A j \in 1..n :
                 invoices_data[customer_invoices[j]].date >= invoices_data[customer_invoices[i]].date
            /\ \A j \in 1..(i - 1) :
                 invoices_data[customer_invoices[j]].date > invoices_data[customer_invoices[i]].date
    IN  customer_invoices[first]

\* lines 299-302: sorted(customer_invoices, key=date, reverse=True)[0].  sorted
\* is stable, also with reverse=True: among equal dates the earlier-inserted
\* invoice stays first.
MostRecent(invoices_data, customer_invoices) ==
    LET n == Len(customer_invoices)
        first == CHOOSE i \in 1..n :
            /\ \A j \in 1..n :
                 invoices_data[customer_invoices[j]].date <= invoices_data[customer_invoices[i]].date
            /\ \A j \in 1..(i - 1) :
                 invoices_data[customer_invoices[j]].date < invoices_data[customer_invoices[i]].date
    IN  customer_invoices[first]

\* SummaryRecord with the lookup keyed wrongly: every invoice is a candidate,
\* whatever its customer
SummaryRecord_AnyCustomer(invoices_data, job) ==
    LET customer_invoices == [i \in 1..Len(invoices_data) |-> i]
        by_amount == IF customer_invoices # << >>
                     THEN AmountMatch(invoices_data, customer_invoices, job.total)
                     ELSE 0
        related_invoice ==
            IF by_amount # 0 THEN by_amount
            ELSE IF customer_invoices # << >>
                 THEN MostRecent(invoices_data, customer_invoices)
                 ELSE 0
        invoice_match_method ==
            IF by_amount # 0 THEN "Amount Match"
            ELSE IF customer_invoices # << >> THEN "Most Recent" ELSE "None"
    IN  [Job_ID |-> job.id,
         Customer_Name |-> job.customer_name,
         Job_Project_Value |-> job.total,
         related_invoice |-> related_invoice,
         Invoice_Date |-> IF related_invoice # 0 THEN invoices_data[related_invoice].date ELSE None,
         Invoice_Total |-> IF related_invoice # 0 THEN invoices_data[related_invoice].total ELSE None,
         Has_Related_Invoices |-> related_invoice # 0,
         Invoice_Count |-> Len(customer_invoices),
         Invoice_Match_Method |-> invoice_match_method]

\* lines 273-323: the record of one job.  related_invoice is the position of
\* the matched invoice in invoices_data (0: None).
SummaryRecord(invoices_data, job) ==
    LET customer_invoices == invoices_by_customer(invoices_data, job.customer_name)
        by_amount == IF customer_invoices # << >>
                     THEN AmountMatch(invoices_data, customer_invoices, job.total)
                     ELSE 0
        related_invoice ==
            IF by_amount # 0 THEN by_amount
            ELSE IF customer_invoices # << >>
                 THEN MostRecent(invoices_data, customer_invoices)
                 ELSE 0
        invoice_match_method ==
            IF by_amount # 0 THEN "Amount Match"
            ELSE IF customer_invoices # << >> THEN "Most Recent" ELSE "None"
    IN  [Job_ID |-> job.id,
         Customer_Name |-> job.customer_name,
         Job_Project_Value |-> job.total,
         related_invoice |-> related_invoice,
         Invoice_Date |-> IF related_invoice # 0 THEN invoices_data[related_invoice].date ELSE None,
         Invoice_Total |-> IF related_invoice # 0 THEN invoices_data[related_invoice].total ELSE None,
         Has_Related_Invoices |-> related_invoice # 0,
         Invoice_Count |-> Len(customer_invoices),
         Invoice_Match_Method |-> invoice_match_method]

\* SummaryRecordsFrom keeping, of the jobs that share an id, the last one
RECURSIVE SummaryRecordsFrom_LastWins(_, _, _, _)
SummaryRecordsFrom_LastWins(invoices_data, jobs_data, i, processed_job_ids) ==
    IF i > Len(jobs_data) THEN << >>
    ELSE LET job == jobs_data[i]
             rest == SummaryRecordsFrom_LastWins(invoices_data, jobs_data, i + 1,
                                                 processed_job_ids)
         IN  IF job.id # 0 /\ \E j \in (i + 1)..Len(jobs_data) : jobs_data[j].id = job.id
             THEN rest
             ELSE <<SummaryRecord(invoices_data, job)>> \o rest

\* lines 259-329: the loop over the jobs with its processed_job_ids set
RECURSIVE SummaryRecordsFrom(_, _, _, _)
SummaryRecordsFrom(invoices_data, jobs_data, i, processed_job_ids) ==
    IF i > Len(jobs_data) THEN << >>
    ELSE LET job == jobs_data[i]
         IN  IF job.id \in processed_job_ids
             THEN SummaryRecordsFrom(invoices_data, jobs_data, i + 1, processed_job_ids)
             ELSE <<SummaryRecord(invoices_data, job)>> \o
                  SummaryRecordsFrom(invoices_data, jobs_data, i + 1,
                      IF job.id # 0 THEN processed_job_ids \cup {job.id}
                      ELSE processed_job_ids)

\* line 337: drop_duplicates(subset=['Job_ID'], keep='first'); missing ids
\* count as equal to each other
RECURSIVE drop_duplicates(_, _)
drop_duplicates(records, seen) ==
    IF records = << >> THEN << >>
    ELSE IF Head(records).Job_ID \in seen
         THEN drop_duplicates(Tail(records), seen)
         ELSE <<Head(records)>> \o
              drop_duplicates(Tail(records), seen \cup {Head(records).Job_ID})

\* lines 227-347
create_powerbi_summary(data) ==
    drop_duplicates(SummaryRecordsFrom(data.invoices, JobsData(data), 1, {}), {})

CreatePowerbiSummary ==
    /\ mpc = "ready"
    /\ powerbi_df' = create_powerbi_summary(all_data)
    /\ mpc' = "done"
    /\ UNCHANGED all_data
    /\ UNCHANGED notMatchVars

(***************************************************************************)
(* create_customer_reports and create_summary_file: the Kimai workbooks.   *)
(*                                                                         *)
(* A row of timesheets_df is [customer, user, project, activity, duration] *)
(* as process_timesheet_mappings leaves it: names, or "NaN" where an id    *)
(* did not resolve; duration in hundredths of an hour (round(2)).          *)
(* Wall-clock values (the Date columns, the date in a file name) are left  *)
(* out of the rows and names.                                              *)
(***************************************************************************)
\* lines 29-41
EXPECTED_CUSTOMERS ==
    <<"Bluewater Operations", "Construction", "DUKE", "Fire Dragon", "Flock",
      "General Admin", "Lumen", "Redspeed", "SCC- Miami Dade", "TECO", "TDS">>

MaxRows == 2

RowCustomers == {"DUKE", "General Admin", "Acme Corp", "NaN"}
RowUsers == {"ann", "bob", "NaN"}
RowActivities == {"a1", "NaN"}
ReportRows ==
    [customer : RowCustomers, user : RowUsers, project : {"p1"},
     activity : RowActivities, duration : {100}]
BreakFrames ==
    { << >>,
      << [user_id |-> 1, date |-> 0, total_breaks |-> 1, total_break_seconds |-> 300,
          break_details |-> << [break_start |-> 57599, break_end |-> 57899,
                                gap_seconds |-> 300] >>,
          first_work_start |-> 35999, last_work_end |-> 61199,
          total_work_entries |-> 2] >> }

\* Python's order of the strings used here (by code point)
NameOrder ==
    <<"", "Acme Corp", "Bluewater Operations", "Construction", "DUKE", "Fire Dragon",
      "Flock", "General Admin", "Lumen", "NaN", "Redspeed", "SCC- Miami Dade", "TDS",
      "TECO", "a1", "ann", "bob", "p1">>
Rank(name) == CHOOSE i \in 1..Len(NameOrder) : NameOrder[i] = name
RECURSIVE TupleLess(_, _)
TupleLess(a, b) ==
    IF a = << >> \/ b = << >> THEN FALSE
    ELSE \/ Rank(Head(a)) < Rank(Head(b))
         \/ (Head(a) = Head(b) /\ TupleLess(Tail(a), Tail(b)))
\* the keys of a groupby, in the sorted order groupby yields them
RECURSIVE SortedKeys(_)
SortedKeys(keys) ==
    IF keys = {} THEN << >>
    ELSE LET k == CHOOSE x \in keys : \A y \in keys : y = x \/ TupleLess(x, y)
         IN  <<k>> \o SortedKeys(keys \ {k})

RECURSIVE SumAll(_)
SumAll(rows) ==
    IF rows = << >> THEN 0 ELSE Head(rows).duration + SumAll(Tail(rows))
SumDuration(rows, Keep(_)) == SumAll(SelectSeq(rows, Keep))
RowSet(rows) == { rows[i] : i \in 1..Len(rows) }

\* round(a / b, n) on scaled integers: to the nearest, a tie to the even side
Round(a, b) ==
    LET q == a \div b
        r == a % b
    IN  IF 2 * r < b THEN q
        ELSE IF 2 * r > b THEN q + 1
        ELSE IF q % 2 = 0 THEN q ELSE q + 1

\* line 302: the rows whose customer is not "General Admin" (a missing
\* customer is kept)
df_customers(rows) == SelectSeq(rows, LAMBDA r : r.customer # "General Admin")

\* line 316: groupby(["customer", "user"]).sum(); groupby drops a row with a
\* missing key
grouped_total_ytd(df_ytd) ==
    LET keys == { <<r.customer, r.user>> : r \in
                    { x \in RowSet(df_ytd) : x.customer # "NaN" /\ x.user # "NaN" } }
        sorted == SortedKeys(keys)
    IN  [n \in 1..Len(sorted) |->
            [customer |-> sorted[n][1], user |-> sorted[n][2],
             duration |-> SumDuration(df_ytd,
                 LAMBDA r : r.customer = sorted[n][1] /\ r.user = sorted[n][2])]]

\* line 317: groupby(["customer", "user", "project", "activity", "date"]).sum()
grouped_detailed_ytd(df_ytd) ==
    LET keys == { <<r.customer, r.user, r.project, r.activity>> : r \in
                    { x \in RowSet(df_ytd) :
                        /\ x.customer # "NaN" /\ x.user # "NaN"
                        /\ x.project # "NaN" /\ x.activity # "NaN" } }
        sorted == SortedKeys(keys)
    IN  [n \in 1..Len(sorted) |->
            [customer |-> sorted[n][1], user |-> sorted[n][2],
             project |-> sorted[n][3], activity |-> sorted[n][4],
             duration |-> SumDuration(df_ytd,
                 LAMBDA r : /\ r.customer = sorted[n][1] /\ r.user = sorted[n][2]
                            /\ r.project = sorted[n][3] /\ r.activity = sorted[n][4])]]

\* lines 326-338
EmployeeSummarySheet(df_ytd) ==
    LET g == grouped_total_ytd(df_ytd)
    IN  [title |-> "Employee Summary",
         header |-> <<"Customer", "Employee", "TotalHours", "Date">>,
         rows |-> [n \in 1..Len(g) |->
                     [Customer |-> g[n].customer, Employee |-> g[n].user,
                      TotalHours |-> g[n].duration]]]

\* lines 340-355
ActivityDetailsSheet(df_ytd) ==
    LET g == grouped_detailed_ytd(df_ytd)
    IN  [title |-> "Activity Details",
         header |-> <<"Customer", "Employee", "Project", "Activity", "Hours", "Date">>,
         rows |-> [n \in 1..Len(g) |->
                     [Customer |-> g[n].customer, Employee |-> g[n].user,
                      Project |-> g[n].project, Activity |-> g[n].activity,
                      Hours |-> g[n].duration]]]

\* lines 361-363: groupby("customer").sum(), then sort_values("duration",
\* ascending=False); customers with equal hours come out in either order
customer_hours(df_ytd) ==
    LET names == { r.customer : r \in { x \in RowSet(df_ytd) : x.customer # "NaN" } }
        total(c) == SumDuration(df_ytd, LAMBDA r : r.customer = c)
        n == Cardinality(names)
    IN  { s \in [1..n -> names] :
            /\ \A i, j \in 1..n : i # j => s[i] # s[j]
            /\ \A i \in 1..(n - 1) : total(s[i]) >= total(s[i + 1]) }

\* lines 357-370
CustomerHoursSheet(df_ytd, order) ==
    LET total(c) == SumDuration(df_ytd, LAMBDA r : r.customer = c)
        total_all_customers == SumDuration(df_ytd, LAMBDA r : r.customer # "NaN")
    IN  [title |-> "Customer Hours Summary",
         header |-> <<"Customer", "TotalHours", "Percentage">>,
         rows |-> [n \in 1..Len(order) |->
                     [Customer |-> order[n], TotalHours |-> total(order[n]),
                      Percentage |-> IF total_all_customers > 0
                                     THEN Round(total(order[n]) * 1000, total_all_customers)
                                     ELSE 0]]]

CustomerSheetHeader ==
    <<"EmployeeName", "EmployeeHours", "ProjectName", "ActivityName", "ActivityHours",
      "CustomerTotal">>
\* line 417
PlaceholderRow ==
    [EmployeeName |-> "", EmployeeHours |-> 0, ProjectName |-> "", ActivityName |-> "",
     ActivityHours |-> 0, CustomerTotal |-> 0]

\* lines 387-412: the rows of the sheet of a customer that has data
RECURSIVE Flatten(_)
Flatten(lists) ==
    IF lists = << >> THEN << >> ELSE Head(lists) \o Flatten(Tail(lists))
CustomerDataRows(df_ytd, customer) ==
    LET customer_total == SelectSeq(grouped_total_ytd(df_ytd),
                                    LAMBDA g : g.customer = customer)
        of_customer == SelectSeq(df_ytd, LAMBDA r : r.customer = customer)
        keys == { <<r.user, r.project, r.activity>> : r \in
                    { x \in RowSet(of_customer) :
                        x.user # "NaN" /\ x.project # "NaN" /\ x.activity # "NaN" } }
        sorted == SortedKeys(keys)
        customer_detailed ==
            [n \in 1..Len(sorted) |->
                [user |-> sorted[n][1], project |-> sorted[n][2], activity |-> sorted[n][3],
                 duration |-> SumDuration(of_customer,
                     LAMBDA r : /\ r.user = sorted[n][1] /\ r.project = sorted[n][2]
                                /\ r.activity = sorted[n][3])]]
        customer_total_hours == SumDuration(customer_total, LAMBDA g : TRUE)
        EmployeeRows(emp_row) ==
            LET emp_activities == SelectSeq(customer_detailed,
                                            LAMBDA a : a.user = emp_row.user)
            IN  IF Len(emp_activities) > 0
                THEN [n \in 1..Len(emp_activities) |->
                        [EmployeeName |-> emp_row.user, EmployeeHours |-> emp_row.duration,
                         ProjectName |-> emp_activities[n].project,
                         ActivityName |-> emp_activities[n].activity,
                         ActivityHours |-> emp_activities[n].duration,
                         CustomerTotal |-> customer_total_hours]]
                ELSE << [EmployeeName |-> emp_row.user, EmployeeHours |-> emp_row.duration,
                         ProjectName |-> "", ActivityName |-> "", ActivityHours |-> 0,
                         CustomerTotal |-> customer_total_hours] >>
    IN  Flatten([n \in 1..Len(customer_total) |-> EmployeeRows(customer_total[n])])

\* lines 373-375
customers_with_data(df_ytd) ==
    { g.customer : g \in RowSet(grouped_total_ytd(df_ytd)) }

\* line 377: set(EXPECTED_CUSTOMERS) - {"General Admin"}
all_expected_customers ==
    { EXPECTED_CUSTOMERS[i] : i \in 1..Len(EXPECTED_CUSTOMERS) } \ {"General Admin"}

\* line 379: the order in which a set of strings is iterated is not fixed (it
\* varies with the interpreter's string hashing); two of the possible orders
\* are kept here: ascending and descending by name.
RECURSIVE Reverse(_)
Reverse(q) == IF q = << >> THEN << >> ELSE Reverse(Tail(q)) \o <<Head(q)>>
IterationOrders(S) ==
    LET asc == SortedKeys({ <<c>> : c \in S })
        names == [n \in 1..Len(asc) |-> asc[n][1]]
    IN  { names, Reverse(names) }

\* CustomerSheet with the placeholder row of line 417 forgotten
CustomerSheet_NoPlaceholder(df_ytd, customer) ==
    [title |-> customer,
     header |-> CustomerSheetHeader,
     rows |-> IF customer \in customers_with_data(df_ytd)
              THEN CustomerDataRows(df_ytd, customer)
              ELSE << >>]

\* lines 383-417: the sheet of one expected customer; the title is the name
\* cut to 31 characters, which no name of the roster exceeds
CustomerSheet(df_ytd, customer) ==
    [title |-> customer,
     header |-> CustomerSheetHeader,
     rows |-> IF customer \in customers_with_data(df_ytd)
              THEN CustomerDataRows(df_ytd, customer)
              ELSE <<PlaceholderRow>>]

\* lines 420-453: the break sheet, present only when breaks_df has rows
RECURSIVE IndividualBreaks(_)
IndividualBreaks(frame) ==
    IF frame = << >> THEN << >>
    ELSE [n \in 1..Len(Head(frame).break_details) |->
             [Employee |-> Head(frame).user_id, Date |-> Head(frame).date,
              BreakStart |-> Head(frame).break_details[n].break_start,
              BreakEnd |-> Head(frame).break_details[n].break_end,
              DurationSeconds |-> Head(frame).break_details[n].gap_seconds,
              WorkDayStart |-> Head(frame).first_work_start,
              WorkDayEnd |-> Head(frame).last_work_end]]
         \o IndividualBreaks(Tail(frame))
BreakSheets(frame) ==
    IF frame = << >> THEN << >>
    ELSE << [title |-> "YTD Break Analysis",
             header |-> <<"Employee", "Date", "BreakStart", "BreakEnd", "DurationMinutes",
                          "DurationHours", "WorkDayStart", "WorkDayEnd">>,
             rows |-> IndividualBreaks(frame)] >>

\* lines 319-453: the workbook, with the break sheet inserted at index 3
BuildWorkbook(rows, frame, pie_order, customer_order) ==
    LET df_ytd == df_customers(rows)
    IN  << EmployeeSummarySheet(df_ytd), ActivityDetailsSheet(df_ytd),
           CustomerHoursSheet(df_ytd, pie_order) >>
        \o BreakSheets(frame)
        \o [n \in 1..Len(customer_order) |-> CustomerSheet(df_ytd, customer_order[n])]

\* lines 469-495: the summary workbook
SummaryWorkbook(rows) ==
    LET users == SortedKeys({ <<r.user>> : r \in { x \in RowSet(rows) : x.user # "NaN" } })
        hours(u) == SumDuration(rows, LAMBDA r : r.user = u)
        total_hours == SumDuration(rows, LAMBDA r : r.user # "NaN")
        total_employees == Len(users)
    IN  << [title |-> "Weekly Summary",
            header |-> << >>,
            rows |-> [n \in 1..Len(users) |->
                        [user |-> users[n][1], duration |-> hours(users[n][1])]],
            metrics |-> [TotalHours |-> total_hours,
                         TotalEmployees |-> total_employees,
                         AverageHours |-> IF total_employees > 0
                                          THEN Round(total_hours, total_employees)
                                          ELSE 0]] >>

MainFileName == "Kimai_Customer_Reports_YTD.xlsx"
SummaryFileName == "Kimai_Summary_YTD.xlsx"

\* lines 296-467 with create_summary_file (469-502).  wb.save raises or not;
\* a failure of the main save is caught at line 465 and None is returned; a
\* failure inside create_summary_file is caught there (line 501) and dropped.
CreateCustomerReports ==
    /\ rpc = "ready"
    /\ \E pie_order \in customer_hours(df_customers(timesheets_df)),
          customer_order \in IterationOrders(all_expected_customers),
          main_saved \in BOOLEAN, summary_saved \in BOOLEAN :
         /\ main_saved \/ ~summary_saved
         /\ wb' = BuildWorkbook(timesheets_df, breaks_df, pie_order, customer_order)
         /\ files' =
              (IF main_saved THEN <<[name |-> MainFileName, sheets |-> wb']>> ELSE << >>)
              \o (IF summary_saved
                  THEN <<[name |-> SummaryFileName,
                          sheets |-> SummaryWorkbook(timesheets_df)]>>
                  ELSE << >>)
         /\ main_file' = IF main_saved THEN MainFileName ELSE "None"
    /\ rpc' = "done"
    /\ UNCHANGED <<timesheets_df, breaks_df, wb_rerun>>
    /\ UNCHANGED notReportVars

\* lines 296-457 once more, in a second process given the same frames: the
\* ties of sort_values fall as they fell before (the sort is a function of its
\* input), while the set of line 377 is iterated in an order of its own (the
\* hashes of strings change from one interpreter process to the next)
RerunCustomerReports ==
    /\ rpc = "done"
    /\ \E pie_order \in customer_hours(df_customers(timesheets_df)),
          customer_order \in IterationOrders(all_expected_customers) :
         /\ CustomerHoursSheet(df_customers(timesheets_df), pie_order) = wb[3]
         /\ wb_rerun' = BuildWorkbook(timesheets_df, breaks_df, pie_order, customer_order)
    /\ rpc' = "again"
    /\ UNCHANGED <<timesheets_df, breaks_df, wb, files, main_file>>
    /\ UNCHANGED notReportVars

(***************************************************************************)
(* authenticate and extract_with_forced_sort.                              *)
(*                                                                         *)
(* The remote side is a data set fixed for one extraction: what the token  *)
(* endpoint answers (auth), the answers to the first page requests         *)
(* (script) and the answer to every later page (tail).  An answer is       *)
(*   kind "ok"            status 200 with a JSON body: cur records dated   *)
(*                        in the current year, old records dated earlier,  *)
(*                        nodate records without a date; meta says whether *)
(*                        _meta is absent, or names this page as the last  *)
(*                        one ("last"), or names a later last page ("more")*)
(*   kind "http_error"    a status other than 200, also without sort       *)
(*   kind "sort_rejected" a status other than 200 for the sorted request,  *)
(*                        200 with one current record for the unsorted one *)
(*   kind "exception"     the request or response.json() raises (timeout,  *)
(*                        connection error, body that is not JSON)         *)
(* A chunk of all_records is [page, n, old]: the n records page added, old *)
(* of them dated before the current year.                                  *)
(***************************************************************************)
RecordLimit == 50000
PageLimit == 500
DefaultPageCount == 999

MaxScript == 2

Answer(kind, cur, old, nodate, meta) ==
    [kind |-> kind, cur |-> cur, old |-> old, nodate |-> nodate, meta |-> meta]
HttpError == Answer("http_error", 0, 0, 0, "absent")
SortRejected == Answer("sort_rejected", 1, 0, 0, "absent")
RaisesException == Answer("exception", 0, 0, 0, "absent")
EmptyPage == Answer("ok", 0, 0, 0, "absent")
ScriptAnswers ==
    { Answer("ok", 1, 0, 0, "absent"),      \* one current record
      Answer("ok", 1, 0, 0, "last"),        \* the same, named as the last page
      Answer("ok", 1, 1, 0, "more"),        \* half of the page is old
      Answer("ok", 1, 2, 0, "absent"),      \* more than half of the page is old
      Answer("ok", 0, 0, 1, "absent"),      \* a record without a date
      Answer("ok", 25000, 0, 0, "absent"),  \* a very large page
      EmptyPage, HttpError, SortRejected, RaisesException }
TailAnswers ==
    { Answer("ok", 1, 0, 0, "absent"),
      Answer("ok", 100, 0, 0, "absent"),
      Answer("ok", 25000, 0, 0, "absent"),
      EmptyPage, HttpError }
AuthAnswers == {"granted", "denied", "exception"}
DateRanges == {"Year to Date", "Month to Date", "All Data"}

\* what the remote side answers to a request for page p
ServerPage(srv, p) == IF p <= Len(srv.script) THEN srv.script[p] ELSE srv.tail

\* len(all_records): the records of the chunks lo..hi, summed by halves
RECURSIVE CountRange(_, _, _)
CountRange(chunks, lo, hi) ==
    IF lo > hi THEN 0
    ELSE IF lo = hi THEN chunks[lo].n
    ELSE LET mid == (lo + hi) \div 2
         IN  CountRange(chunks, lo, mid) + CountRange(chunks, mid + 1, hi)

Count(chunks) == CountRange(chunks, 1, Len(chunks))

\* lines 42-85: authenticate().  TRUE without a request when a token is cached
\* and has not expired; otherwise one POST, whose answer decides.
NeedsToken == ~(access_token # "None" /\ token_fresh)
Authenticated_Always == TRUE

Authenticated == ~NeedsToken \/ server.auth = "granted"

\* KeptRecords filtering by year under "Year to Date" only
KeptRecords_YearOnly(selector, answer) ==
    IF selector = "Year to Date"
    THEN [n |-> answer.cur + answer.nodate, old |-> 0]
    ELSE [n |-> answer.cur + answer.nodate + answer.old, old |-> answer.old]

\* lines 139-164: what one page adds to all_records
KeptRecords(selector, answer) ==
    IF selector \in {"Year to Date", "Month to Date"}
    THEN [n |-> answer.cur + answer.nodate, old |-> 0]
    ELSE [n |-> answer.cur + answer.nodate + answer.old, old |-> answer.old]

\* line 160: more than half of the page is old data, and not on the first page
OldDataStop_AnyPage(selector, answer, p) ==
    /\ selector \in {"Year to Date", "Month to Date"}
    /\ 2 * answer.old > answer.cur + answer.old + answer.nodate

OldDataStop(selector, answer, p) ==
    /\ selector \in {"Year to Date", "Month to Date"}
    /\ 2 * answer.old > answer.cur + answer.old + answer.nodate
    /\ p > 1

\* lines 167-172: _meta names this page as the last one
LastPage(answer, p) ==
    LET current_page == p
        page_count == IF answer.meta = "absent" THEN DefaultPageCount
                      ELSE IF answer.meta = "last" THEN p ELSE p + 1
    IN  current_page >= page_count

\* lines 175-177
RecordLimitReached_Strict(records) == Count(records) > RecordLimit

RecordLimitReached(records) == Count(records) >= RecordLimit

\* lines 179-181
PageLimitReached(p) == p > PageLimit

\* the status a request is answered with, as the log keeps it
StatusOf(answer) ==
    IF answer.kind = "ok" THEN "200"
    ELSE IF answer.kind = "exception" THEN "exception" ELSE "other"
AuthStatus(auth) ==
    IF auth = "granted" THEN "200"
    ELSE IF auth = "exception" THEN "exception" ELSE "other"

\* lines 119-127: on page 1 a request answered with a status other than 200 is
\* sent again without sort
Retried_AnyPage(first, p) == first.kind \in {"http_error", "sort_rejected"}

Retried_UpToPage2(first, p) == first.kind \in {"http_error", "sort_rejected"} /\ p <= 2

Retried(first, p) == first.kind \in {"http_error", "sort_rejected"} /\ p = 1

\* lines 89-106: the call: authenticate, then page 1 with an empty list
ExtractBegin ==
    /\ xpc = "call"
    /\ http_log' = IF NeedsToken
                   THEN <<[method |-> "POST", page |-> 0, sort |-> FALSE,
                           status |-> AuthStatus(server.auth)]>>
                   ELSE << >>
    /\ IF Authenticated
       THEN /\ access_token' = "token"
            /\ token_fresh' = IF NeedsToken THEN TRUE ELSE token_fresh
            /\ page' = 1
            /\ all_records' = << >>
            /\ xpc' = "loop"
            /\ extracted' = "pending"
       ELSE \* lines 90-91: return []
            /\ xpc' = "returned"
            /\ extracted' = << >>
            /\ UNCHANGED <<access_token, token_fresh, page, all_records>>
    /\ stale_get' = FALSE
    /\ UNCHANGED <<server, date_range, twin>>
    /\ UNCHANGED notExtractVars

\* lines 108-191: one pass of the while loop for page p, with records the
\* list all_records so far: the requests it sends, and where it leaves the
\* loop (xpc "return": the loop was left), the page and the list
PagePass(selector, srv, p, records) ==
    LET first == ServerPage(srv, p)
        sorted_get == [method |-> "GET", page |-> p, sort |-> TRUE,
                       status |-> StatusOf(first)]
        plain_get == [method |-> "GET", page |-> p, sort |-> FALSE,
                      status |-> IF first.kind = "sort_rejected" THEN "200" ELSE "other"]
        retried == Retried(first, p)
        answer == IF retried /\ first.kind = "sort_rejected"
                  THEN Answer("ok", first.cur, first.old, first.nodate, first.meta)
                  ELSE first
        kept == KeptRecords(selector, answer)
        grown == IF kept.n > 0
                 THEN Append(records, [page |-> p, n |-> kept.n, old |-> kept.old])
                 ELSE records
        requests == IF retried THEN <<sorted_get, plain_get>> ELSE <<sorted_get>>
    IN  IF answer.kind # "ok"
        THEN \* a status other than 200 (lines 124-127) or an exception (186-191)
             [requests |-> requests, xpc |-> "return", page |-> p, all_records |-> records]
        ELSE IF answer.cur + answer.old + answer.nodate = 0
        THEN \* lines 133-135: no more records
             [requests |-> requests, xpc |-> "return", page |-> p, all_records |-> records]
        ELSE IF \/ OldDataStop(selector, answer, p)
                \/ LastPage(answer, p)
                \/ RecordLimitReached(grown)
                \/ PageLimitReached(p)
        THEN [requests |-> requests, xpc |-> "return", page |-> p, all_records |-> grown]
        ELSE [requests |-> requests, xpc |-> "loop", page |-> p + 1, all_records |-> grown]

\* lines 108-191: one pass of the while loop for the local page
ExtractPage ==
    /\ xpc = "loop"
    /\ \E pass \in {PagePass(date_range, server, page, all_records)} :
         /\ http_log' = http_log \o pass.requests
         /\ xpc' = pass.xpc
         /\ page' = pass.page
         /\ all_records' = pass.all_records
    /\ stale_get' = (stale_get \/ ~token_fresh)
    /\ UNCHANGED <<server, date_range, access_token, token_fresh, extracted, twin>>
    /\ UNCHANGED notExtractVars

\* lines 193-194: return all_records
ExtractReturn ==
    /\ xpc = "return"
    /\ extracted' = all_records
    /\ xpc' = "returned"
    /\ UNCHANGED <<server, date_range, access_token, token_fresh, page, all_records,
                   http_log, stale_get, twin>>
    /\ UNCHANGED notExtractVars

\* The cached token reaches its expiry time
TokenExpires ==
    /\ xpc \in {"call", "loop", "return"}
    /\ access_token # "None"
    /\ token_fresh
    /\ token_fresh' = FALSE
    /\ UNCHANGED <<server, date_range, access_token, xpc, page, all_records, http_log,
                   stale_get, extracted, twin>>
    /\ UNCHANGED notExtractVars

\* The second call, made once the first has returned.  lines 89-106 on a fresh
\* extractor: no token is cached, so authenticate sends its POST.
TwinBegin ==
    /\ xpc = "returned"
    /\ twin.xpc = "call"
    /\ twin' = IF server.auth = "granted"
               THEN [twin EXCEPT !.xpc = "loop", !.page = 1, !.all_records = << >>,
                                 !.http_log = <<[method |-> "POST", page |-> 0,
                                                 sort |-> FALSE,
                                                 status |-> AuthStatus(server.auth)]>>]
               ELSE [twin EXCEPT !.xpc = "returned", !.extracted = << >>,
                                 !.http_log = <<[method |-> "POST", page |-> 0,
                                                 sort |-> FALSE,
                                                 status |-> AuthStatus(server.auth)]>>]
    /\ UNCHANGED <<server, date_range, access_token, token_fresh, xpc, page, all_records,
                   http_log, stale_get, extracted>>
    /\ UNCHANGED notExtractVars

\* lines 108-191 in the second call
TwinPage ==
    /\ twin.xpc = "loop"
    /\ \E pass \in {PagePass(twin.date_range, server, twin.page, twin.all_records)} :
         twin' = [twin EXCEPT !.http_log = twin.http_log \o pass.requests,
                              !.xpc = pass.xpc,
                              !.page = pass.page,
                              !.all_records = pass.all_records]
    /\ UNCHANGED <<server, date_range, access_token, token_fresh, xpc, page, all_records,
                   http_log, stale_get, extracted>>
    /\ UNCHANGED notExtractVars

\* lines 193-194 in the second call
TwinReturn ==
    /\ twin.xpc = "return"
    /\ twin' = [twin EXCEPT !.xpc = "returned", !.extracted = twin.all_records]
    /\ UNCHANGED <<server, date_range, access_token, token_fresh, xpc, page, all_records,
                   http_log, stale_get, extracted>>
    /\ UNCHANGED notExtractVars

(***************************************************************************)
(* One run of a script: main() of kimai_payroll_engineering.py with        *)
(* fetch_api_data and process_timesheet_mappings, and main() of            *)
(* project-dashboard-ytd.py with extract_all_data and save_to_excel.       *)
(*                                                                         *)
(* A run works on numbers of records.  A Kimai page of rows holds one      *)
(* finished entry; a reference endpoint that answers rows holds one        *)
(* record.  The rows process_timesheet_mappings leaves are drawn from      *)
(* RunRows, and the entries make no break.                                 *)
(***************************************************************************)
Programs == {"kimai", "service_fusion"}
Credentials == {"KIMAI_API_TOKEN", "SF_CLIENT_ID", "SF_CLIENT_SECRET"}

MaxKimaiPages == 2

KimaiEndpoints == <<"Timesheets", "Activities", "Projects", "Users">>
endpoints_to_extract == <<"customers", "jobs", "estimates", "invoices">>

\* what a Kimai request is answered with: 200 and a non-empty JSON list, 200
\* and an empty list, 200 and JSON that is not a list, a status other than 200,
\* or an exception (timeout, connection error, body that is not JSON)
KimaiAnswers == {"rows", "empty", "not_a_list", "http_error", "exception"}
TestAnswers == {"ok", "rejected", "exception"}

\* the remote data sets a run of the Service Fusion script extracts from
RunServers ==
    { [auth |-> "granted", script |-> << >>, tail |-> EmptyPage],
      [auth |-> "granted", script |-> <<Answer("ok", 1, 0, 0, "last")>>, tail |-> EmptyPage],
      [auth |-> "granted", script |-> <<Answer("ok", 1, 0, 0, "absent")>>, tail |-> HttpError],
      [auth |-> "granted", script |-> <<SortRejected, Answer("ok", 1, 0, 0, "absent")>>,
       tail |-> RaisesException],
      [auth |-> "denied", script |-> << >>, tail |-> EmptyPage] }

RunRows ==
    { [customer |-> "DUKE", user |-> "ann", project |-> "p1", activity |-> "a1",
       duration |-> 100],
      [customer |-> "NaN", user |-> "ann", project |-> "p1", activity |-> "a1",
       duration |-> 100] }

RECURSIVE SeqsOfLen(_, _)
SeqsOfLen(S, n) ==
    IF n = 0 THEN { << >> }
    ELSE { Append(q, x) : q \in SeqsOfLen(S, n - 1), x \in S }

\* kimai 516-520: not api_token; dashboard 434-439: not client_id or not client_secret
CredentialsMissing_ClientIdOnly(prog, env) ==
    IF prog = "kimai" THEN "KIMAI_API_TOKEN" \notin env
    ELSE "SF_CLIENT_ID" \notin env

CredentialsMissing(prog, env) ==
    IF prog = "kimai" THEN "KIMAI_API_TOKEN" \notin env
    ELSE "SF_CLIENT_ID" \notin env \/ "SF_CLIENT_SECRET" \notin env

Exit(code) ==
    /\ exit_code' = code
    /\ mainpc' = "exited"

\* kimai 504-520 and dashboard 422-441: read the environment; sys.exit(1) when a
\* credential is missing.  SystemExit is not an Exception, so the handler at the
\* end of main() does not catch it.
MainStart ==
    /\ mainpc = "start"
    /\ IF CredentialsMissing(program, environ)
       THEN /\ Exit("1")
            /\ endpoint_i' = endpoint_i
       ELSE /\ mainpc' = IF program = "kimai" THEN "test" ELSE "extract"
            /\ endpoint_i' = 1
            /\ exit_code' = exit_code
    /\ UNCHANGED <<program, environ, kimai_remote, kimai_page, df_list, dataframes, run_all_data, net_log>>
    /\ UNCHANGED <<breakVars, matchVars, reportVars, extractVars>>

\* kimai 522-572: the test request to /api/users, and the two other header
\* formats when it is not answered with 200; exceptions are printed and dropped
KimaiTestRequest ==
    /\ mainpc = "test"
    /\ \E answer \in TestAnswers :
         net_log' = net_log \o
            (IF answer = "rejected"
             THEN << [name |-> "test", page |-> 0, answer |-> "http_error"],
                     [name |-> "test", page |-> 0, answer |-> "http_error"],
                     [name |-> "test", page |-> 0, answer |-> "http_error"] >>
             ELSE << [name |-> "test", page |-> 0,
                      answer |-> IF answer = "ok" THEN "rows" ELSE "exception"] >>)
    /\ mainpc' = "fetch"
    /\ endpoint_i' = 1
    /\ kimai_page' = 1
    /\ df_list' = << >>
    /\ dataframes' = << >>
    /\ UNCHANGED <<program, environ, kimai_remote, run_all_data, exit_code>>
    /\ UNCHANGED <<breakVars, matchVars, reportVars, extractVars>>

\* lines 147-151: if df_list: dataframes[name] = pd.concat(df_list)
Stored_NewestFirst(frames, name, list) ==
    IF list # << >>
    THEN Append(frames, [name |-> name, records |-> Len(list), pages |-> Reverse(list)])
    ELSE frames

Stored(frames, name, list) ==
    IF list # << >>
    THEN Append(frames, [name |-> name, records |-> Len(list), pages |-> list])
    ELSE frames

\* The two kinds of Kimai server: a "bounded" one answers rows on at most
\* MaxKimaiPages pages of Timesheets and anything after them, an "endless" one
\* answers a non-empty list of rows on every page.
KimaiRemotes == {"bounded", "endless"}

KimaiAnswerOn(remote, p) ==
    IF remote = "endless" THEN {"rows"}
    ELSE IF p <= MaxKimaiPages THEN KimaiAnswers
    ELSE KimaiAnswers \ {"rows"}

\* lines 100-127: one pass of the `while True` loop over the pages of Timesheets.
\* The loop has no counter of its own to stop it: a list of rows is appended
\* and the next page is asked for (lines 112-115), anything else breaks.  The
\* pages after MaxKimaiPages are told apart by their parity only: from there on
\* page += 1 takes kimai_page from MaxKimaiPages + 1 to MaxKimaiPages + 2 and
\* back, and the requests and frames of those pages are not recorded.
KimaiFetchPage ==
    /\ mainpc = "fetch"
    /\ endpoint_i = 1
    /\ \E answer \in KimaiAnswerOn(kimai_remote, kimai_page) :
         IF answer = "rows" /\ kimai_page > MaxKimaiPages
         THEN /\ kimai_page' = IF kimai_page = MaxKimaiPages + 1
                               THEN MaxKimaiPages + 2 ELSE MaxKimaiPages + 1
              /\ UNCHANGED <<net_log, df_list, dataframes, endpoint_i>>
         ELSE /\ net_log' = Append(net_log, [name |-> KimaiEndpoints[1],
                                             page |-> kimai_page, answer |-> answer])
              /\ IF answer = "rows"
                 THEN /\ df_list' = Append(df_list, kimai_page)
                      /\ kimai_page' = kimai_page + 1
                      /\ UNCHANGED <<dataframes, endpoint_i>>
                 ELSE /\ dataframes' = Stored(dataframes, KimaiEndpoints[1], df_list)
                      /\ endpoint_i' = 2
                      /\ df_list' = << >>
                      /\ UNCHANGED kimai_page
    /\ UNCHANGED <<program, environ, kimai_remote, mainpc, run_all_data, exit_code>>
    /\ UNCHANGED <<breakVars, matchVars, reportVars, extractVars>>

\* lines 128-153: one request for an endpoint that is not paginated; after the
\* last endpoint fetch_api_data returns dataframes
KimaiFetchOnce ==
    /\ mainpc = "fetch"
    /\ endpoint_i \in 2..Len(KimaiEndpoints)
    /\ \E answer \in KimaiAnswers :
         /\ net_log' = Append(net_log, [name |-> KimaiEndpoints[endpoint_i], page |-> 0,
                                        answer |-> answer])
         /\ dataframes' = Stored(dataframes, KimaiEndpoints[endpoint_i],
                                 IF answer = "rows" THEN <<0>> ELSE << >>)
    /\ IF endpoint_i = Len(KimaiEndpoints)
       THEN /\ mainpc' = "process"
            /\ UNCHANGED endpoint_i
       ELSE /\ endpoint_i' = endpoint_i + 1
            /\ UNCHANGED mainpc
    /\ UNCHANGED <<program, environ, kimai_remote, kimai_page, df_list, run_all_data, exit_code>>
    /\ UNCHANGED <<breakVars, matchVars, reportVars, extractVars>>

Sheets(frames) == { frames[i].name : i \in DOMAIN frames }
RecordsOf(frames, name) ==
    IF name \in Sheets(frames)
    THEN frames[CHOOSE i \in DOMAIN frames : frames[i].name = name].records
    ELSE 0

\* lines 229-231: the four sheets process_timesheet_mappings requires
MappingsReady(frames) ==
    \A sheet \in {"Timesheets", "Activities", "Projects", "Users"} : sheet \in Sheets(frames)

\* kimai 583-594: main() after fetch_api_data: return False when dataframes is
\* empty, or when process_timesheet_mappings returns None (lines 226-294);
\* otherwise hand timesheets_df and breaks_df to create_customer_reports
KimaiProcess ==
    /\ mainpc = "process"
    /\ IF dataframes = << >> \/ ~MappingsReady(dataframes)
       THEN /\ Exit("1")
            /\ UNCHANGED reportVars
       ELSE /\ timesheets_df' \in SeqsOfLen(RunRows, RecordsOf(dataframes, "Timesheets"))
            /\ breaks_df' = << >>
            /\ rpc' = "ready"
            /\ mainpc' = "reports"
            /\ UNCHANGED <<wb, files, main_file, wb_rerun, exit_code>>
    /\ UNCHANGED <<program, environ, kimai_remote, endpoint_i, kimai_page, df_list, dataframes,
                   run_all_data, net_log>>
    /\ UNCHANGED <<breakVars, matchVars, extractVars>>

\* kimai 596-608 and 615-618: main_file decides the exit status
KimaiFinish ==
    /\ mainpc = "reports"
    /\ rpc = "done"
    /\ Exit(IF main_file # "None" THEN "0" ELSE "1")
    /\ UNCHANGED <<program, environ, kimai_remote, endpoint_i, kimai_page, df_list, dataframes,
                   run_all_data, net_log>>
    /\ UNCHANGED <<breakVars, matchVars, reportVars, extractVars>>

\* dashboard 356-360: extract_all_data calls extract_with_forced_sort for the
\* next endpoint; the remote data set of that endpoint is any of RunServers
ExtractAllDataCall ==
    /\ mainpc = "extract"
    /\ xpc \in {"idle", "stored"}
    /\ endpoint_i <= Len(endpoints_to_extract)
    /\ server' \in RunServers
    /\ xpc' = "call"
    /\ UNCHANGED <<date_range, access_token, token_fresh, page, all_records, http_log,
                   stale_get, extracted, twin>>
    /\ UNCHANGED runVars
    /\ UNCHANGED <<breakVars, matchVars, reportVars>>

\* dashboard 360-369: all_data[endpoint_name] = raw_data, then the next
\* endpoint, or return all_data after the last one
ExtractAllDataStore ==
    /\ mainpc = "extract"
    /\ xpc = "returned"
    /\ run_all_data' = Append(run_all_data, [name |-> endpoints_to_extract[endpoint_i],
                                             records |-> Count(extracted)])
    /\ net_log' = Append(net_log, [name |-> endpoints_to_extract[endpoint_i],
                                   server |-> server, requests |-> http_log])
    /\ xpc' = "stored"
    /\ IF endpoint_i = Len(endpoints_to_extract)
       THEN /\ mainpc' = "save"
            /\ UNCHANGED endpoint_i
       ELSE /\ endpoint_i' = endpoint_i + 1
            /\ UNCHANGED mainpc
    /\ UNCHANGED <<program, environ, kimai_remote, kimai_page, df_list, dataframes, exit_code>>
    /\ UNCHANGED <<server, date_range, access_token, token_fresh, page, all_records,
                   http_log, stale_get, extracted, twin>>
    /\ UNCHANGED <<breakVars, matchVars, reportVars>>

\* dashboard 227-347 on numbers of records: one row per job, or per estimate
\* when there is no job (lines 239-248)
PowerBIRows(data) ==
    IF RecordsOf(data, "jobs") > 0 THEN RecordsOf(data, "jobs")
    ELSE RecordsOf(data, "estimates")

\* dashboard 376-414: the sheets save_to_excel writes, in order
ExcelSheets(data) ==
    << [title |-> "PowerBI_Summary", rows |-> PowerBIRows(data)],
       [title |-> "Extraction_Summary", rows |-> Len(data)] >>
    \o [i \in 1..Len(SelectSeq(data, LAMBDA d : d.records > 0)) |->
          [title |-> SelectSeq(data, LAMBDA d : d.records > 0)[i].name,
           rows |-> SelectSeq(data, LAMBDA d : d.records > 0)[i].records]]

SFFileName == "ServiceFusion_YTD.xlsx"

\* dashboard 447-463 with save_to_excel (371-419): the workbook is written and
\* main() returns True, or writing raises, save_to_excel raises again and
\* main() returns False; what a failed write leaves on disk is the sheets
\* written before it failed, if any
SaveToExcel ==
    /\ mainpc = "save"
    /\ \E saved \in BOOLEAN, k \in 0..(Len(ExcelSheets(run_all_data)) - 1) :
         IF saved
         THEN /\ files' = <<[name |-> SFFileName, sheets |-> ExcelSheets(run_all_data)]>>
              /\ Exit("0")
         ELSE /\ files' = IF k = 0 THEN << >>
                          ELSE <<[name |-> SFFileName,
                                  sheets |-> SubSeq(ExcelSheets(run_all_data), 1, k)]>>
              /\ Exit("1")
    /\ UNCHANGED <<program, environ, kimai_remote, endpoint_i, kimai_page, df_list, dataframes,
                   run_all_data, net_log>>
    /\ UNCHANGED <<timesheets_df, breaks_df, rpc, wb, main_file, wb_rerun>>
    /\ UNCHANGED <<breakVars, matchVars, extractVars>>

\* The idle values of each part's variables
IdleBreaks ==
    /\ raw_timesheets = {}
    /\ bpc = "idle"
    /\ pending = {}
    /\ scanned = << >>
    /\ break_records = << >>
IdleMatch ==
    /\ all_data = [jobs |-> << >>, invoices |-> << >>, estimates |-> << >>]
    /\ mpc = "idle"
    /\ powerbi_df = << >>

IdleReports ==
    /\ timesheets_df = << >>
    /\ breaks_df = << >>
    /\ rpc = "idle"
    /\ wb = << >>
    /\ files = << >>
    /\ main_file = "None"
    /\ wb_rerun = << >>

\* no second call is made
NoTwin == [date_range |-> "Year to Date", xpc |-> "idle", page |-> 1, all_records |-> << >>,
           http_log |-> << >>, extracted |-> "pending"]

IdleExtract ==
    /\ server = [auth |-> "granted", script |-> << >>, tail |-> EmptyPage]
    /\ date_range = "Year to Date"
    /\ access_token = "None"
    /\ token_fresh = FALSE
    /\ xpc = "idle"
    /\ page = 1
    /\ all_records = << >>
    /\ http_log = << >>
    /\ stale_get = FALSE
    /\ extracted = "pending"
    /\ twin = NoTwin

IdleRun ==
    /\ program = "kimai"
    /\ environ = {}
    /\ kimai_remote = "bounded"
    /\ mainpc = "idle"
    /\ endpoint_i = 1
    /\ kimai_page = 1
    /\ df_list = << >>
    /\ dataframes = << >>
    /\ run_all_data = << >>
    /\ net_log = << >>
    /\ exit_code = "running"

InitBreaks ==
    /\ raw_timesheets \in SubsetsUpTo(Entries, MaxEntries)
    /\ bpc = "ready"
    /\ pending = {}
    /\ scanned = << >>
    /\ break_records = << >>
    /\ IdleMatch
    /\ IdleReports
    /\ IdleExtract
    /\ IdleRun

NextBreaks == CalcBreaksBegin \/ CalcBreaksGroup \/ CalcBreaksReturn

SpecBreaks == InitBreaks /\ [][NextBreaks]_vars

InitMatch ==
    /\ all_data \in [jobs : SeqsUpTo(Jobs, MaxJobs),
                     invoices : SeqsUpTo(Invoices, MaxInvoices),
                     estimates : EstimateLists]
    /\ mpc = "ready"
    /\ powerbi_df = << >>
    /\ IdleBreaks
    /\ IdleReports
    /\ IdleExtract
    /\ IdleRun

NextMatch == CreatePowerbiSummary

SpecMatch == InitMatch /\ [][NextMatch]_vars

\* The frame create_customer_reports receives from main always has a row:
\* without timesheets the run ends before (lines 229-231, 593-595).
InitReports ==
    /\ timesheets_df \in SeqsUpTo(ReportRows, MaxRows) \ {<< >>}
    /\ breaks_df \in BreakFrames
    /\ rpc = "ready"
    /\ wb = << >>
    /\ files = << >>
    /\ main_file = "None"
    /\ wb_rerun = << >>
    /\ IdleBreaks
    /\ IdleMatch
    /\ IdleExtract
    /\ IdleRun

NextReports == CreateCustomerReports

SpecReports == InitReports /\ [][NextReports]_vars

\* create_customer_reports run twice, by two processes, on the same frames
NextRerun == CreateCustomerReports \/ RerunCustomerReports

SpecRerun == InitReports /\ [][NextRerun]_vars

\* One call of extract_with_forced_sort on a fresh extractor (no token yet),
\* against any remote data set.
InitExtract ==
    /\ server \in [auth : AuthAnswers, script : SeqsUpTo(ScriptAnswers, MaxScript),
                   tail : TailAnswers]
    /\ date_range \in DateRanges
    /\ access_token = "None"
    /\ token_fresh = FALSE
    /\ xpc = "call"
    /\ page = 1
    /\ all_records = << >>
    /\ http_log = << >>
    /\ stale_get = FALSE
    /\ extracted = "pending"
    /\ twin = NoTwin
    /\ IdleBreaks
    /\ IdleMatch
    /\ IdleReports
    /\ IdleRun

NextExtract == ExtractBegin \/ ExtractPage \/ ExtractReturn

SpecExtract == InitExtract /\ [][NextExtract]_vars

\* The selectors the second call is made with: the other time-bounded one, the
\* documented unbounded one, and a value the code does not know.
TwinRanges == {"Month to Date", "All Data", "Last 7 Days"}

\* One call under "Year to Date" and then the same call under another
\* selector, each on a fresh extractor, against the same remote data set.
InitTwin ==
    /\ server \in [auth : AuthAnswers, script : SeqsUpTo(ScriptAnswers, MaxScript),
                   tail : TailAnswers]
    /\ date_range = "Year to Date"
    /\ access_token = "None"
    /\ token_fresh = FALSE
    /\ xpc = "call"
    /\ page = 1
    /\ all_records = << >>
    /\ http_log = << >>
    /\ stale_get = FALSE
    /\ extracted = "pending"
    /\ twin \in [date_range : TwinRanges, xpc : {"call"}, page : {1},
                 all_records : {<< >>}, http_log : {<< >>}, extracted : {"pending"}]
    /\ IdleBreaks
    /\ IdleMatch
    /\ IdleReports
    /\ IdleRun

NextTwin ==
    \/ ExtractBegin
    \/ ExtractPage
    \/ ExtractReturn
    \/ TwinBegin
    \/ TwinPage
    \/ TwinReturn

SpecTwin == InitTwin /\ [][NextTwin]_vars

\* the state main() starts from, whatever the script, the environment and the
\* remote side are
RunStart ==
    /\ mainpc = "start"
    /\ endpoint_i = 1
    /\ kimai_page = 1
    /\ df_list = << >>
    /\ dataframes = << >>
    /\ run_all_data = << >>
    /\ net_log = << >>
    /\ exit_code = "running"
    /\ server = [auth |-> "granted", script |-> << >>, tail |-> EmptyPage]
    /\ access_token = "None"
    /\ token_fresh = FALSE
    /\ xpc = "idle"
    /\ page = 1
    /\ all_records = << >>
    /\ http_log = << >>
    /\ stale_get = FALSE
    /\ extracted = "pending"
    /\ twin = NoTwin
    /\ IdleBreaks
    /\ IdleMatch
    /\ IdleReports

\* One run of either script, with any of the credential variables set.
InitRun ==
    /\ program \in Programs
    /\ environ \in SUBSET Credentials
    /\ date_range \in DateRanges
    /\ kimai_remote = "bounded"
    /\ RunStart

NextRun ==
    \/ MainStart
    \/ KimaiTestRequest
    \/ KimaiFetchPage
    \/ KimaiFetchOnce
    \/ KimaiProcess
    \/ CreateCustomerReports
    \/ KimaiFinish
    \/ ExtractAllDataCall
    \/ ExtractBegin
    \/ ExtractPage
    \/ ExtractReturn
    \/ TokenExpires
    \/ ExtractAllDataStore
    \/ SaveToExcel

SpecRun == InitRun /\ [][NextRun]_vars

\* One run of the Kimai script against either kind of server, from the start
\* of main() to the return of fetch_api_data.  main() is one sequential
\* program: whenever it has a step to take it takes it, which is the weak
\* fairness of its steps.
InitKimaiRun ==
    /\ program = "kimai"
    /\ environ \in SUBSET Credentials
    /\ date_range = "Year to Date"
    /\ kimai_remote \in KimaiRemotes
    /\ RunStart

NextKimaiFetch ==
    \/ MainStart
    \/ KimaiTestRequest
    \/ KimaiFetchPage
    \/ KimaiFetchOnce

SpecKimaiFetch == InitKimaiRun /\ [][NextKimaiFetch]_vars /\ WF_vars(NextKimaiFetch)


(***************************************************************************)
(* Claims about the break detector.                                        *)
(***************************************************************************)
\* The break intervals recorded for group k
RecordedBreaks(k) ==
    { <<n, i>> \in (1..Len(break_records)) \X (1..MaxEntries + 1) :
        /\ break_records[n].user_id = k[1]
        /\ break_records[n].date = k[2]
        /\ i <= Len(break_records[n].break_details) }
BreakAt(p) == break_records[p[1]].break_details[p[2]]
\* How many recorded intervals of group k run from the end of row e1 to the begin of row e2
EmittedFor(k, e1, e2) ==
    Cardinality({ p \in RecordedBreaks(k) :
        /\ BreakAt(p).break_start = strftime_HMS(e1.end_local)
        /\ BreakAt(p).break_end = strftime_HMS(e2.begin_local) })
\* The claim's condition on a pair of rows, stated with the claim's own numbers
GapOf(e1, e2) == e2.begin_local - e1.end_local
HoursInWindow(e1, e2) ==
    /\ hour_of(e1.end_local) \in 10..16
    /\ hour_of(e2.begin_local) \in 10..16
QualifyingPair(e1, e2) ==
    /\ GapOf(e1, e2) >= 300 /\ GapOf(e1, e2) <= 3600
    /\ HoursInWindow(e1, e2)

BetweenTwoRowsOfGroup(r, b) ==
    \E e1, e2 \in LocalRows(raw_timesheets) :
        /\ e1 # e2
        /\ e1.user = r.user_id /\ e2.user = r.user_id
        /\ e1.date_only = r.date /\ e2.date_only = r.date
        /\ date_of(e1.end_local) = r.date /\ date_of(e2.begin_local) = r.date
        /\ b.break_start = strftime_HMS(e1.end_local)
        /\ b.break_end = strftime_HMS(e2.begin_local)
        /\ b.gap_seconds = GapOf(e1, e2)
        /\ b.break_start < b.break_end
        /\ GapOf(e1, e2) >= 5 * 60 /\ GapOf(e1, e2) <= 60 * 60
        /\ HoursInWindow(e1, e2)
\* Some row of r's user and day is running during part of the interval
CoveredByAnotherRow(r, b) ==
    \E e3 \in LocalRows(raw_timesheets) :
        /\ e3.user = r.user_id /\ e3.date_only = r.date
        /\ e3.begin_local < r.date * SecondsPerDay + b.break_end
        /\ e3.end_local > r.date * SecondsPerDay + b.break_start

CandidatesOf(c) ==
    { i \in 1..Len(all_data.invoices) : all_data.invoices[i].customer = c }
\* The candidates of c passing the claim's amount test against job_total:
\* total positive and |invoice_total - job_total| / job_total <= 0.1
QualifyingOf(c, job_total) ==
    { i \in CandidatesOf(c) :
        /\ all_data.invoices[i].total > 0
        /\ 10 * Abs(all_data.invoices[i].total - job_total) <= job_total }
\* The totals of c's candidates in insertion order
RECURSIVE TotalsOfFrom(_, _)
TotalsOfFrom(c, i) ==
    IF i > Len(all_data.invoices) THEN << >>
    ELSE IF all_data.invoices[i].customer = c
         THEN <<all_data.invoices[i].total>> \o TotalsOfFrom(c, i + 1)
         ELSE TotalsOfFrom(c, i + 1)

\* C3: in the returned summary, a job with a positive total and at least one
\* candidate of its customer within 10% of it is matched, by "Amount Match", to
\* the FIRST such candidate in insertion order (not to the closest one).
C3_FirstAmountMatchWins ==
    mpc = "done" =>
        \A n \in 1..Len(powerbi_df) :
            LET r == powerbi_df[n]
                q == QualifyingOf(r.Customer_Name, r.Job_Project_Value)
            IN  (r.Job_Project_Value > 0 /\ q # {}) =>
                    /\ r.related_invoice \in q
                    /\ \A i \in q : r.related_invoice <= i
                    /\ r.Invoice_Match_Method = "Amount Match"
                    /\ r.Invoice_Total = all_data.invoices[r.related_invoice].total

\* C3 witness: the spec's example and a first-is-not-closest case.  A job of
\* total 100 whose customer's candidates total [85, 130, 109] is matched to 109.
C3_Witness ==
    /\ mpc = "done"
    /\ \E n \in 1..Len(powerbi_df) :
         /\ powerbi_df[n].Job_Project_Value = 100
         /\ TotalsOfFrom(powerbi_df[n].Customer_Name, 1) = <<85, 130, 109>>
         /\ powerbi_df[n].Invoice_Total = 109
         /\ powerbi_df[n].Invoice_Match_Method = "Amount Match"

\* C4: in the returned summary, a job whose total is not positive, or none of
\* whose customer's candidates passes the amount test, and whose customer has
\* at least one candidate, is matched by "Most Recent" to a candidate of that
\* customer carrying the greatest date among them.
C4_MostRecentFallback ==
    mpc = "done" =>
        \A n \in 1..Len(powerbi_df) :
            LET r == powerbi_df[n]
                c == CandidatesOf(r.Customer_Name)
            IN  ( /\ c # {}
                  /\ \/ r.Job_Project_Value <= 0
                     \/ QualifyingOf(r.Customer_Name, r.Job_Project_Value) = {} ) =>
                    /\ r.related_invoice \in c
                    /\ \A i \in c : all_data.invoices[i].date
                                      <= all_data.invoices[r.related_invoice].date
                    /\ r.Invoice_Date = all_data.invoices[r.related_invoice].date
                    /\ r.Invoice_Match_Method = "Most Recent"

\* C4 witness: a job of total 0 whose customer has an invoice dated 1
\* ('2024-01-01') followed by one dated 2 ('2024-03-01') got the later one.
C4_Witness ==
    /\ mpc = "done"
    /\ \E n \in 1..Len(powerbi_df) :
         LET c == CandidatesOf(powerbi_df[n].Customer_Name)
         IN  /\ powerbi_df[n].Job_Project_Value = 0
             /\ \E i, j \in c : /\ i < j
                                /\ all_data.invoices[i].date = 1
                                /\ all_data.invoices[j].date = 2
             /\ powerbi_df[n].Invoice_Date = 2
             /\ powerbi_df[n].Invoice_Match_Method = "Most Recent"

\* C5: every summary record carries at most one invoice, taken from the
\* candidates of the job's own customer; it has no match (Has_Related_Invoices
\* false, method "None", Invoice_Total and Invoice_Date null) exactly when its
\* customer has no candidate; and the method is "None" iff there is no match.
C5_MatchWithinOwnCustomer ==
    mpc = "done" =>
        \A n \in 1..Len(powerbi_df) :
            LET r == powerbi_df[n]
                c == CandidatesOf(r.Customer_Name)
            IN  /\ r.Has_Related_Invoices <=> (r.related_invoice # 0)
                /\ r.Has_Related_Invoices => r.related_invoice \in c
                /\ (~r.Has_Related_Invoices) <=> (c = {})
                /\ (~r.Has_Related_Invoices) =>
                       /\ r.Invoice_Total = None
                       /\ r.Invoice_Date = None
                /\ (r.Invoice_Match_Method = "None") <=> ~r.Has_Related_Invoices
                /\ r.Invoice_Count = Cardinality(c)

\* C5 witness: one summary holds a job matched to an invoice of its own
\* customer and a job of another customer, left unmatched although invoices
\* (of the first customer) were on offer.
C5_Witness ==
    /\ mpc = "done"
    /\ \E n, m \in 1..Len(powerbi_df) :
         /\ powerbi_df[n].Has_Related_Invoices
         /\ all_data.invoices[powerbi_df[n].related_invoice].customer = powerbi_df[n].Customer_Name
         /\ powerbi_df[m].Customer_Name # powerbi_df[n].Customer_Name
         /\ ~powerbi_df[m].Has_Related_Invoices
         /\ powerbi_df[m].Invoice_Match_Method = "None"


(***************************************************************************)
(* Claims about the report builder.                                        *)
(***************************************************************************)
Roster == { EXPECTED_CUSTOMERS[i] : i \in 1..Len(EXPECTED_CUSTOMERS) }
\* The sheets of the customer workbook as written to disk
WrittenSheets(name) ==
    LET at == { n \in 1..Len(files) : files[n].name = name }
    IN  IF at = {} THEN << >> ELSE files[CHOOSE n \in at : TRUE].sheets
SheetsTitled(sheets, title) == { n \in 1..Len(sheets) : sheets[n].title = title }
HasNoRecord(customer) ==
    \A n \in 1..Len(timesheets_df) : timesheets_df[n].customer # customer
\* customer has exactly one sheet, holding the header row and one row of
\* zero/empty values
HasPlaceholderSheet(sheets, customer) ==
    /\ Cardinality(SheetsTitled(sheets, customer)) = 1
    /\ \A n \in SheetsTitled(sheets, customer) :
         /\ sheets[n].header = <<"EmployeeName", "EmployeeHours", "ProjectName",
                                 "ActivityName", "ActivityHours", "CustomerTotal">>
         /\ Len(sheets[n].rows) = 1
         /\ sheets[n].rows[1].EmployeeName = "" /\ sheets[n].rows[1].EmployeeHours = 0
         /\ sheets[n].rows[1].ProjectName = "" /\ sheets[n].rows[1].ActivityName = ""
         /\ sheets[n].rows[1].ActivityHours = 0 /\ sheets[n].rows[1].CustomerTotal = 0

Exited == mainpc = "exited"

RequiredCredentials ==
    IF program = "kimai" THEN {"KIMAI_API_TOKEN"} ELSE {"SF_CLIENT_ID", "SF_CLIENT_SECRET"}
ACredentialIsMissing == ~(RequiredCredentials \subseteq environ)

\* the network answered the request for page p of endpoint name with answer
KimaiAnswered(name, p, answer) ==
    \E i \in DOMAIN net_log :
        net_log[i].name = name /\ net_log[i].page = p /\ net_log[i].answer = answer

\* the remote data set the run extracted endpoint name from
ServedWith(name, srv) ==
    \E i \in DOMAIN net_log : net_log[i].name = name /\ net_log[i].server = srv

\* The primary endpoint answered its first request with 200 and no record,
\* and every reference endpoint answered 200 with records.
ZeroPrimaryRecords ==
    IF program = "kimai"
    THEN /\ KimaiAnswered("Timesheets", 1, "empty")
         /\ \A r \in {"Activities", "Projects", "Users"} : KimaiAnswered(r, 0, "rows")
    ELSE /\ ServedWith("jobs", [auth |-> "granted", script |-> << >>, tail |-> EmptyPage])
         /\ RecordsOf(run_all_data, "jobs") = 0
         /\ \A r \in {"customers", "estimates", "invoices"} :
              /\ ServedWith(r, [auth |-> "granted",
                                script |-> <<Answer("ok", 1, 0, 0, "last")>>,
                                tail |-> EmptyPage])
              /\ RecordsOf(run_all_data, r) = 1

\* the run reached the step that writes the workbook
WriteStepReached ==
    IF program = "kimai" THEN rpc = "done" ELSE xpc = "stored" /\ Len(run_all_data) = 4

\* writing the workbook raised
WriteFailed ==
    IF program = "kimai" THEN rpc = "done" /\ main_file = "None"
    ELSE \/ files = << >>
         \/ Len(files[1].sheets) < Len(ExcelSheets(run_all_data))

\* C7: in each pipeline, a run whose primary endpoint (Kimai timesheets, Service
\* Fusion jobs) returned 0 records while every reference endpoint was retrieved
\* reaches the write step, and exits with status 0 and a workbook on disk
\* whenever the write itself succeeds, instead of failing.
C7_ZeroPrimaryRecordsStillSucceeds ==
    (Exited /\ ~ACredentialIsMissing /\ ZeroPrimaryRecords) =>
        /\ WriteStepReached
        /\ ~WriteFailed => (exit_code = "0" /\ Len(files) >= 1)

\* C7, the Service Fusion half alone: with 0 jobs and every other endpoint
\* retrieved the run reaches save_to_excel, and exits 0 with a workbook whose
\* PowerBI_Summary sheet is there, unless writing the file raised.
C7_ServiceFusionZeroJobsReachesSave ==
    (Exited /\ program = "service_fusion" /\ ~ACredentialIsMissing /\ ZeroPrimaryRecords) =>
        /\ WriteStepReached
        /\ ~WriteFailed =>
             /\ exit_code = "0"
             /\ Len(files) = 1
             /\ files[1].sheets[1].title = "PowerBI_Summary"

\* C8: in both scripts, when a required credential is missing (KIMAI_API_TOKEN;
\* SF_CLIENT_ID or SF_CLIENT_SECRET) the process exits with status 1 as the
\* first thing main() does: no network request has been sent and no file has
\* been written, and the run is in no other position than its start or its exit.
C8_MissingCredentialExitsBeforeNetwork ==
    ACredentialIsMissing =>
        /\ net_log = << >>
        /\ http_log = << >>
        /\ files = << >>
        /\ mainpc \in {"start", "exited"}
        /\ Exited => exit_code = "1"

\* C8 witness: the Service Fusion script, started with SF_CLIENT_ID set and
\* SF_CLIENT_SECRET missing, has exited with status 1.
C8_Witness ==
    /\ program = "service_fusion"
    /\ environ = {"SF_CLIENT_ID"}
    /\ Exited
    /\ exit_code = "1"

(***************************************************************************)
(* C9, C10: the safety limits of extract_with_forced_sort                  *)
(***************************************************************************)
RequestedPages == { http_log[i].page : i \in { j \in DOMAIN http_log : http_log[j].method = "GET" } }

\* C9: for any sequence of answers, extract_with_forced_sort requests no page
\* numbered above 500 for one endpoint.
C9_NoPageAbove500 ==
    \A p \in RequestedPages : p <= PageLimit

\* C10: a further page is requested only while fewer than 50,000 records are
\* accumulated, so the list extract_with_forced_sort returns holds fewer than
\* 50,000 records plus the records of the last page it added.
C10_RecordLimitStopsExtraction ==
    /\ xpc = "loop" => Count(all_records) < RecordLimit
    /\ (xpc = "returned" /\ Len(extracted) > 0) =>
          Count(extracted) < RecordLimit + extracted[Len(extracted)].n

\* C10 witness: an extraction returned more than 50,000 records, having
\* stopped at the record limit well before the page limit.
C10_Witness ==
    /\ xpc = "returned"
    /\ Count(extracted) > RecordLimit
    /\ Len(http_log) < 10


(***************************************************************************)
(* C11: a status other than 200 ends the pagination of the endpoint        *)
(***************************************************************************)
\* the requests of the log that were answered with a status other than 200
Refused(log) == { i \in DOMAIN log : log[i].method = "GET" /\ log[i].status = "other" }

\* the pages below p whose answer added records to all_records
PagesKeptBelow(p) ==
    { q \in 1..(p - 1) : KeptRecords(date_range, ServerPage(server, q)).n > 0 }

\* what extract_with_forced_sort returned is what the pages before the
\* refused one had added
PartialResultReturned ==
    (xpc = "returned" /\ Refused(http_log) # {} /\ http_log[Len(http_log)].status = "other") =>
        /\ extracted = all_records
        /\ { extracted[j].page : j \in DOMAIN extracted }
             = PagesKeptBelow(http_log[Len(http_log)].page)

TimesheetRequests == SelectSeq(net_log, LAMBDA e : e.name = "Timesheets")

\* fetch_api_data: a refused Timesheets request is the last one, and the sheet
\* stored holds the records of the pages answered before it
KimaiRefusalEndsPagination ==
    program = "kimai" =>
        /\ \A i \in DOMAIN TimesheetRequests :
             TimesheetRequests[i].answer = "http_error" => i = Len(TimesheetRequests)
        /\ (mainpc = "fetch" /\ endpoint_i > 1) =>
             RecordsOf(dataframes, "Timesheets")
               = Cardinality({ i \in DOMAIN TimesheetRequests :
                                 TimesheetRequests[i].answer = "rows" })

TimeBounded == date_range \in {"Year to Date", "Month to Date"}

\* the answer the loop works on for page p: on page 1 the answer to the
\* second, unsorted request when the sorted one was refused
SeenAnswer(p) ==
    LET first == ServerPage(server, p)
    IN  IF p = 1 /\ first.kind = "sort_rejected"
        THEN Answer("ok", first.cur, first.old, first.nodate, first.meta)
        ELSE first

RecordsOn(answer) == answer.cur + answer.old + answer.nodate
MostlyOld(answer) == 2 * answer.old > RecordsOn(answer)

\* the loop has stopped after working on the local page
StoppedAfterPage == xpc = "return"

\* the page the loop stopped after was answered with 200 and records
StoppedOnRecords == StoppedAfterPage /\ SeenAnswer(page).kind = "ok" /\ RecordsOn(SeenAnswer(page)) > 0

\* one of the other stop rules applied to the page the loop stopped after
OtherStopRule ==
    \/ SeenAnswer(page).meta = "last"
    \/ Count(all_records) >= RecordLimit
    \/ page > PageLimit

\* the records of the page the loop stopped after that are not old are in
\* all_records
LastPageKept ==
    LET n == SeenAnswer(page).cur + SeenAnswer(page).nodate
    IN  n > 0 => /\ Len(all_records) > 0
                 /\ all_records[Len(all_records)] = [page |-> page, n |-> n, old |-> 0]

\* C12: a time-bounded extraction stops after a page if and only if that page
\* is not the first and more than half of its records are old; the current
\* records of that page are kept; page 1 never stops it for being old.
C12_StopsIffOldDataOnLaterPage ==
    TimeBounded =>
        /\ StoppedOnRecords => (page > 1 /\ MostlyOld(SeenAnswer(page)))
        /\ (xpc = "loop" /\ page > 2) => ~MostlyOld(SeenAnswer(page - 1))
        /\ StoppedOnRecords => LastPageKept

\* C12 (amended): a time-bounded extraction always stops after a page that is
\* not the first and has more than half of its records old, and a page of
\* records to which no other stop rule applies (last page named by _meta,
\* record limit, page limit) stops it only in that case; the current records
\* of the page it stopped after are kept; page 1 never stops it for being old.
C12_OldDataStopsOnLaterPageOnly ==
    TimeBounded =>
        /\ (StoppedOnRecords /\ ~OtherStopRule) => (page > 1 /\ MostlyOld(SeenAnswer(page)))
        /\ (xpc = "loop" /\ page > 2) => ~MostlyOld(SeenAnswer(page - 1))
        /\ StoppedOnRecords => LastPageKept

\* C12 witness: a Year to Date extraction went on after a page 1 that was
\* mostly old, stopped after a page 2 that was mostly old, and kept the one
\* current record of each.
C12_Witness ==
    /\ date_range = "Year to Date"
    /\ StoppedAfterPage
    /\ page = 2
    /\ SeenAnswer(1) = Answer("ok", 1, 2, 0, "absent")
    /\ SeenAnswer(2) = Answer("ok", 1, 2, 0, "absent")
    /\ all_records = << [page |-> 1, n |-> 1, old |-> 0], [page |-> 2, n |-> 1, old |-> 0] >>


(***************************************************************************)
(* C13: a failure inside one endpoint does not abort the run               *)
(***************************************************************************)
SeenAnswerOf(srv, p) ==
    LET first == ServerPage(srv, p)
    IN  IF p = 1 /\ first.kind = "sort_rejected"
        THEN Answer("ok", first.cur, first.old, first.nodate, first.meta)
        ELSE first

\* the records the pages below p add, for the remote data set srv
RECURSIVE KeptBelow(_, _)
KeptBelow(srv, p) ==
    IF p <= 1 THEN 0
    ELSE KeptRecords(date_range, SeenAnswerOf(srv, p - 1)).n + KeptBelow(srv, p - 1)

\* the endpoints the run has finished extracting, as net_log keeps them
Extractions == { i \in DOMAIN net_log : program = "service_fusion" }
AuthFailed(e) ==
    \E i \in DOMAIN e.requests :
        e.requests[i].method = "POST" /\ e.requests[i].status # "200"
Raised(e) ==
    \E i \in DOMAIN e.requests :
        e.requests[i].method = "GET" /\ e.requests[i].status = "exception"
GetsOf(e) == { i \in DOMAIN e.requests : e.requests[i].method = "GET" }

\* with its credentials set, the Service Fusion run extracts all four
\* endpoints, in order, before it writes, whatever failed on the way
EveryEndpointExtracted ==
    (program = "service_fusion" /\ mainpc \in {"save", "exited"} /\ ~ACredentialIsMissing) =>
        /\ Len(net_log) = Len(endpoints_to_extract)
        /\ \A i \in DOMAIN net_log : /\ net_log[i].name = endpoints_to_extract[i]
                                     /\ run_all_data[i].name = endpoints_to_extract[i]

RequestLogs ==
    IF program = "service_fusion"
    THEN { net_log[i].requests : i \in DOMAIN net_log } \cup { http_log }
    ELSE { }
GetsOfPage(log, p) == { i \in DOMAIN log : log[i].method = "GET" /\ log[i].page = p }
PagesOf(log) == { log[i].page : i \in { j \in DOMAIN log : log[j].method = "GET" } }

\* the URL a Kimai request goes to: the probe of main() asks /api/users, as
\* the Users endpoint of fetch_api_data does
KimaiUrl(name) == IF name = "test" THEN "Users" ELSE name
KimaiRequestsOf(url, p) ==
    { i \in DOMAIN net_log : KimaiUrl(net_log[i].name) = url /\ net_log[i].page = p }
KimaiFetchesOf(name, p) ==
    { i \in DOMAIN net_log : net_log[i].name = name /\ net_log[i].page = p }
KimaiNames == { KimaiEndpoints[i] : i \in DOMAIN KimaiEndpoints }

\* a request that failed added no record: a chunk of all_records belongs to a
\* page that has a request answered with 200
FailedRequestsAddNothing ==
    (program = "service_fusion" /\ xpc \in {"loop", "return"}) =>
        \A k \in DOMAIN all_records :
            \E i \in GetsOfPage(http_log, all_records[k].page) : http_log[i].status = "200"

RECURSIVE SumTotalHours(_)
SumTotalHours(rows) ==
    IF rows = << >> THEN 0 ELSE Head(rows).TotalHours + SumTotalHours(Tail(rows))

EmployeeSummaryWritten ==
    LET sheets == WrittenSheets(main_file)
    IN  sheets[CHOOSE n \in DOMAIN sheets : sheets[n].title = "Employee Summary"]

\* C15: the hours summed over all rows of the Employee Summary equal the hours
\* summed over all input records that are not "General Admin", the entries
\* whose user, project or customer did not resolve to a name included.
C15_UnresolvedHoursAreCounted ==
    (rpc = "done" /\ main_file # "None") =>
        SumTotalHours(EmployeeSummaryWritten.rows)
          = SumAll(SelectSeq(timesheets_df, LAMBDA r : r.customer # "General Admin"))


(***************************************************************************)
(* C16: two runs on the same data                                          *)
(***************************************************************************)
SheetSet(book) == { book[n] : n \in DOMAIN book }

\* C16: a second run against identical upstream data gives the same
\* aggregated values in the same sequence of report sections: the workbook of
\* the second run is, sheet for sheet, the workbook of the first.
C16_RerunGivesSameSections ==
    rpc = "again" => wb_rerun = wb

\* the part of C16 that holds: the second run writes the same sheets with the
\* same rows, whatever their order in the workbook
C16_RerunGivesSameSheets ==
    rpc = "again" => (SheetSet(wb_rerun) = SheetSet(wb) /\ Len(wb_rerun) = Len(wb))


(***************************************************************************)
(* C17: a workbook that could not be written                               *)
(***************************************************************************)
FilesOnDisk == { files[i].name : i \in DOMAIN files }

\* every workbook the run is to produce was written in full
EveryWorkbookWritten ==
    IF program = "kimai"
    THEN FilesOnDisk = {MainFileName, SummaryFileName}
    ELSE files = <<[name |-> SFFileName, sheets |-> ExcelSheets(run_all_data)]>>

\* C17: the process exits with status 0 only when every workbook of the run
\* was written; a save that raises makes the process exit with status 1.
C17_ExitZeroOnlyWhenEveryWorkbookWritten ==
    (Exited /\ exit_code = "0") => EveryWorkbookWritten

\* the part of C17 that holds: status 0 means the main workbook of the run
\* (customer reports; Service Fusion export) was written
C17_ExitZeroOnlyWhenMainWorkbookWritten ==
    (Exited /\ exit_code = "0") =>
        IF program = "kimai" THEN MainFileName \in FilesOnDisk ELSE EveryWorkbookWritten


(***************************************************************************)
(* C18: the sheets of the customer workbook                                *)
(***************************************************************************)
\* the sheet names and header rows of a workbook
Schema(book) == { <<book[n].title, book[n].header>> : n \in DOMAIN book }

\* the schema of a workbook that has every section: the three summary sheets,
\* the break sheet, and one sheet for each customer the loop of line 379 visits
FullSchema ==
    { <<"Employee Summary", <<"Customer", "Employee", "TotalHours", "Date">> >>,
      <<"Activity Details",
        <<"Customer", "Employee", "Project", "Activity", "Hours", "Date">> >>,
      <<"Customer Hours Summary", <<"Customer", "TotalHours", "Percentage">> >>,
      <<"YTD Break Analysis",
        <<"Employee", "Date", "BreakStart", "BreakEnd", "DurationMinutes",
          "DurationHours", "WorkDayStart", "WorkDayEnd">> >> }
    \cup { <<c, CustomerSheetHeader>> : c \in Roster \ {"General Admin"} }

IsBreakSheet(entry) == entry[1] = "YTD Break Analysis"

\* C18: the sheet names of the workbook create_customer_reports writes, and
\* the header row of each sheet, are the same for every input, whether or not
\* any break exists.
C18_SchemaIsTheSameForEveryInput ==
    (rpc = "done" /\ main_file # "None") => Schema(WrittenSheets(main_file)) = FullSchema

\* the part of C18 that holds: apart from the break sheet, which is there
\* exactly when breaks_df has rows, the schema is the same for every input
C18_SchemaIsTheSameApartFromBreakSheet ==
    (rpc = "done" /\ main_file # "None") =>
        /\ { e \in Schema(WrittenSheets(main_file)) : ~IsBreakSheet(e) }
             = { e \in FullSchema : ~IsBreakSheet(e) }
        /\ (\E e \in Schema(WrittenSheets(main_file)) : IsBreakSheet(e)) <=> breaks_df # << >>


(***************************************************************************)
(* C19: the cached access token                                            *)
(***************************************************************************)
TokenCachedAndUnexpired == access_token # "None" /\ token_fresh
PostSent(log) == \E i \in DOMAIN log : log[i].method = "POST"

\* a step that runs authenticate(): the call of extract_with_forced_sort
AuthenticateStep == xpc = "call" /\ xpc' # "call"

\* authenticate() sends the POST exactly when no unexpired token is cached,
\* and with an unexpired token cached it leaves token and expiry as they are
LazyRefresh ==
    AuthenticateStep =>
        /\ PostSent(http_log') <=> ~TokenCachedAndUnexpired
        /\ TokenCachedAndUnexpired =>
             /\ xpc' = "loop"
             /\ access_token' = access_token
             /\ token_fresh' = token_fresh

\* C19: authenticate() sends the credential-exchange POST if and only if no
\* token is cached or the cached token has expired, leaves an unexpired token
\* and its expiry unchanged without any network call, and every resource GET
\* is sent while the cached token is unexpired.
C19_TokenFreshAtEveryGet ==
    [][LazyRefresh /\ ~stale_get']_vars

\* the part of C19 that holds: the token is cached and refreshed lazily at the
\* start of each endpoint's extraction
C19_TokenRefreshedLazilyAtCall ==
    [][LazyRefresh]_vars


(***************************************************************************)
(* C20: the order of the pages                                             *)
(***************************************************************************)
GetsIn(log) == SelectSeq(log, LAMBDA e : e.method = "GET")

\* the chunks the pages 1..p add, in page order
RECURSIVE ChunksUpTo(_)
ChunksUpTo(p) ==
    IF p = 0 THEN << >>
    ELSE LET kept == KeptRecords(date_range, SeenAnswer(p))
         IN  ChunksUpTo(p - 1) \o
             (IF SeenAnswer(p).kind = "ok" /\ kept.n > 0
              THEN <<[page |-> p, n |-> kept.n, old |-> kept.old]>> ELSE << >>)

\* all_records is the concatenation, in page order, of what the pages worked
\* on so far have added
ConcatenatedInPageOrder ==
    /\ xpc = "loop" => all_records = ChunksUpTo(page - 1)
    /\ xpc = "return" => all_records = ChunksUpTo(page)

\* fetch_api_data: pages 1, 2, 3, ... of Timesheets, each after the one before
\* was answered with rows, and the sheet stored holds them in that order
KimaiPagesInOrder ==
    program = "kimai" =>
        /\ \A i \in DOMAIN TimesheetRequests :
             /\ TimesheetRequests[i].page = i
             /\ i > 1 => TimesheetRequests[i - 1].answer = "rows"
        /\ \A i \in DOMAIN dataframes :
             dataframes[i].name = "Timesheets" =>
                 dataframes[i].pages = [k \in 1..Len(dataframes[i].pages) |-> k]

FetchReturned == Exited \/ mainpc = "process"

\* C21: every pagination loop ends whatever the remote server does: also
\* against a server that answers a non-empty page for every page number, the
\* run eventually leaves fetch_api_data (or has exited before calling it).
C21_EveryPaginationLoopEnds == <>FetchReturned

\* Against a server that stops answering rows after finitely many pages the
\* loop of fetch_api_data does end.
C21_BoundedRemoteLoopEnds == (kimai_remote = "bounded") => <>FetchReturned

\* The Service Fusion loop never asks for a page beyond PageLimit + 1.
C21_ServiceFusionPagesBounded ==
    \A i \in DOMAIN http_log : http_log[i].method = "GET" => http_log[i].page <= PageLimit + 1


(***************************************************************************)
(* C22: output files and the processing that precedes them                 *)
(***************************************************************************)
\* the main workbook of the Kimai run is on disk and its summary workbook,
\* which create_summary_file aggregates and writes after it, is not
MainWorkbookWithoutSummary ==
    program = "kimai" /\ FilesOnDisk = {MainFileName}

\* C22: no output file is written before all the processing of the run is
\* done, so that a failure never leaves a part of the output files: when the
\* process has exited, either nothing was written or every workbook of the
\* run was written in full.
C22_OutputFilesAllOrNone ==
    Exited => (files = << >> \/ EveryWorkbookWritten)


(***************************************************************************)
(* C23: what the record of a (user, day) group holds                       *)
(***************************************************************************)
\* the records appended for group k
RecordsOfGroup(k) ==
    { n \in 1..Len(break_records) :
        break_records[n].user_id = k[1] /\ break_records[n].date = k[2] }

\* the positions of a sorted group whose gap to the next row is accepted
AcceptedGaps(group) ==
    { i \in 1..(Len(group) - 1) : QualifyingPair(group[i], group[i + 1]) }

\* the sum of the accepted gaps at positions i and later, in seconds
RECURSIVE SumOfAcceptedGaps(_, _)
SumOfAcceptedGaps(group, i) ==
    IF i >= Len(group) THEN 0
    ELSE (IF i \in AcceptedGaps(group) THEN GapOf(group[i], group[i + 1]) ELSE 0)
         + SumOfAcceptedGaps(group, i + 1)

\* the rows of group k that start first, and those that start last
EarliestStarting(k) ==
    { e \in GroupOf(LocalRows(raw_timesheets), k) :
        \A o \in GroupOf(LocalRows(raw_timesheets), k) : e.begin_local <= o.begin_local }
LatestStarting(k) ==
    { e \in GroupOf(LocalRows(raw_timesheets), k) :
        \A o \in GroupOf(LocalRows(raw_timesheets), k) : o.begin_local <= e.begin_local }

\* C23: every record belongs to a visited group; a visited group with fewer
\* than two rows has no record; a visited group has a record (exactly one)
\* exactly when at least one of its gaps was accepted; and in that record
\* total_breaks is the length of break_details and the number of accepted
\* gaps, the total break time is the sum of the accepted gaps,
\* first_work_start is the start of an earliest-starting row and
\* last_work_end is the end of a latest-starting row of the group.
C23_BreakRecordsConsistent ==
    /\ \A n \in 1..Len(break_records) :
         \E m \in 1..Len(scanned) :
            scanned[m].key = <<break_records[n].user_id, break_records[n].date>>
    /\ \A m \in 1..Len(scanned) :
         LET k == scanned[m].key
             group == scanned[m].group
         IN  /\ Len(group) < 2 => RecordsOfGroup(k) = {}
             /\ Cardinality(RecordsOfGroup(k)) = IF AcceptedGaps(group) = {} THEN 0 ELSE 1
             /\ \A n \in RecordsOfGroup(k) :
                  LET rec == break_records[n]
                  IN  /\ rec.total_breaks = Len(rec.break_details)
                      /\ rec.total_breaks = Cardinality(AcceptedGaps(group))
                      /\ rec.total_break_seconds = SumOfAcceptedGaps(group, 1)
                      /\ \E e \in EarliestStarting(k) :
                            rec.first_work_start = strftime_HMS(e.begin_local)
                      /\ \E e \in LatestStarting(k) :
                            rec.last_work_end = strftime_HMS(e.end_local)

\* C23 witness: the detector has returned a record for a group of three rows
\* in which a row that starts earlier ends after the latest-starting row, so
\* last_work_end is not the latest end of the day.
C23_Witness ==
    /\ bpc = "done"
    /\ \E m \in 1..Len(scanned) :
         LET k == scanned[m].key
             group == scanned[m].group
         IN  /\ Len(group) = 3
             /\ RecordsOfGroup(k) # {}
             /\ \E i \in 1..2 : group[i].end_local > group[3].end_local
             /\ \A n \in RecordsOfGroup(k) :
                  break_records[n].last_work_end = strftime_HMS(group[3].end_local)

\* a visited group of one row has no record
C23_SingleRowGroupSeen ==
    /\ bpc = "done"
    /\ \E m \in 1..Len(scanned) :
         Len(scanned[m].group) = 1 /\ RecordsOfGroup(scanned[m].key) = {}


(***************************************************************************)
(* C24: jobs that share an id                                              *)
(***************************************************************************)
\* the positions in the job list of the jobs with this id, and the first one
JobsWithId(id) ==
    { i \in 1..Len(JobsData(all_data)) : JobsData(all_data)[i].id = id }
FirstWithId(id) == CHOOSE i \in JobsWithId(id) : \A j \in JobsWithId(id) : i <= j
RecordsWithId(id) == { n \in 1..Len(powerbi_df) : powerbi_df[n].Job_ID = id }
JobIds == { JobsData(all_data)[i].id : i \in 1..Len(JobsData(all_data)) }

BothReturned == xpc = "returned" /\ twin.xpc = "returned"

\* the chunk a returned list holds for page p, if any
ChunksOfPage(records, p) == { j \in DOMAIN records : records[j].page = p }

\* every chunk of a returned list holds only records without a date or dated
\* in the current year: all of those its page carried, and no other
OnlyUndatedOrCurrentYear(records) ==
    \A j \in DOMAIN records :
        /\ records[j].old = 0
        /\ records[j].n = SeenAnswerOf(server, records[j].page).cur
                          + SeenAnswerOf(server, records[j].page).nodate

\* every page that was fetched with records has all its records in the list
EveryFetchedRecordKept(log, records) ==
    \A p \in PagesOf(log) :
        (SeenAnswerOf(server, p).kind = "ok" /\ RecordsOn(SeenAnswerOf(server, p)) > 0) =>
            /\ Cardinality(ChunksOfPage(records, p)) = 1
            /\ \A j \in ChunksOfPage(records, p) :
                  /\ records[j].n = RecordsOn(SeenAnswerOf(server, p))
                  /\ records[j].old = SeenAnswerOf(server, p).old

\* C25: against the same remote data set, the call under "Month to Date"
\* sends the same requests (the same pages, in the same order) and returns the
\* same records as the call under "Year to Date", and what they return are
\* records without a date or dated in the current year; under any other
\* selector the call returns every record of every page it fetched.
C25_MonthToDateIsYearToDate ==
    BothReturned =>
        /\ OnlyUndatedOrCurrentYear(extracted)
        /\ twin.date_range = "Month to Date" =>
              /\ twin.http_log = http_log
              /\ twin.extracted = extracted
        /\ twin.date_range \notin {"Year to Date", "Month to Date"} =>
              EveryFetchedRecordKept(twin.http_log, twin.extracted)

\* C25 witness: both calls have returned, the second one made under "Month
\* to Date"; they fetched two pages or more, a fetched page carried records of
\* an earlier year, and both returned the same non-empty list without them.
C25_Witness ==
    /\ BothReturned
    /\ twin.date_range = "Month to Date"
    /\ Cardinality(PagesOf(twin.http_log)) >= 2
    /\ \E p \in PagesOf(twin.http_log) :
          SeenAnswerOf(server, p).kind = "ok" /\ SeenAnswerOf(server, p).old > 0
    /\ twin.extracted = extracted
    /\ Len(extracted) >= 1

\* a call under a selector the code does not know returned records of an
\* earlier year, which the call under "Year to Date" had dropped
C25_UnknownSelectorKeepsOldRecords ==
    /\ BothReturned
    /\ twin.date_range = "Last 7 Days"
    /\ \E j \in DOMAIN twin.extracted : twin.extracted[j].old > 0
    /\ twin.extracted # extracted
    /\ twin.http_log # http_log

=============================================================================
